---- MODULE Spec2Model ----
(***************************************************************************)
(* A model of dr/fluxcal2.py (SAMI flux calibration): the aperture         *)
(* subgrid, the parameter codec, the chromatic laws, the chunking of the   *)
(* spectra, the per-slice flux extraction, the spectral rebinner, the      *)
(* smoothed transfer-function ratio, the reader of the standard spectra,   *)
(* the FITS persistence policy and the batch driver                        *)
(* derive_transfer_function.                                               *)
(*                                                                         *)
(* Conventions.                                                            *)
(*  - A call that can raise returns [ok, err, val]: Ok(v) or Raise(e).     *)
(*  - numpy arrays are sequences (1-based here, 0-based in the source; the *)
(*    helpers PyIndex / PySlice take the source's 0-based / negative       *)
(*    indices).                                                            *)
(*  - A float that may be NaN is <<>> (NaN) or <<v>> (finite).             *)
(***************************************************************************)
EXTENDS Integers, Sequences, FiniteSets, TLC

VARIABLES
    model_name,         \* the model_name argument of the call under study
    parameters_dict,    \* a PSF parameter record (a dict in the source)
    vector_result,      \* what parameters_dict_to_vector returned / raised
    dict_result,        \* what parameters_vector_to_dict returned / raised
    wavelength_arg,     \* the wavelength grid argument
    array_result,       \* what parameters_dict_to_array returned / raised
    guess_result,       \* what first_guess_parameters returned / raised
    fit_result,         \* what fit_model_flux returned / raised
    ifu_arg,            \* the IFU object (one probe of one file)
    extract_result,     \* what extract_total_flux returned / raised
    rebin_args,         \* target grid, source grid and source flux
    rebin_result,       \* what rebin_flux returned / raised
    ratio_args,         \* the standard flux and the smooth flag
    ratio_result,       \* what take_ratio returned / raised
    hdulist,            \* the HDUs of the FITS file at path
    save_call,          \* the last save operation: arguments and file before
    save_result,        \* what the last save operation returned / raised
    first_op,           \* the first save operation made on the file
    latest_tf,          \* the transfer function passed to the last save of one
    derive_pc,          \* the statement derive_transfer_function is at
    derive_files,       \* the FITS files of path_list, in order
    derive_locals,      \* the local variables of derive_transfer_function
    derive_trace,       \* the steps derive_transfer_function has made
    astropy,            \* what the installed astropy answers
    index_files,        \* the data lines of the index file at each path
    chunk_args,         \* the arguments of a chunk_data call
    chunk_result,       \* what chunk_data returned / raised
    standard_lines,     \* the lines of a standard star's spectrum file
    standard_result,    \* what read_standard_data returned / raised
    smooth_args,        \* the ratio and width arguments of smooth_ratio
    smooth_result,      \* what smooth_ratio returned / raised
    subgrid_args,       \* fibre_radius, n_inner and n_rings
    subgrid_result      \* what generate_subgrid returned / raised

codecVars == <<model_name, parameters_dict, vector_result, dict_result>>

callVars == <<wavelength_arg, array_result, guess_result, fit_result>>

extractVars == <<ifu_arg, extract_result>>

rebinVars == <<rebin_args, rebin_result, ratio_args, ratio_result>>

saveVars == <<hdulist, save_call, save_result, first_op, latest_tf>>

deriveVars ==
    <<derive_pc, derive_files, derive_locals, derive_trace, astropy,
      index_files>>

unitVars ==
    <<chunk_args, chunk_result, standard_lines, standard_result,
      smooth_args, smooth_result, subgrid_args, subgrid_result>>

pipelineVars == <<rebinVars, saveVars, deriveVars, unitVars>>

vars == <<codecVars, callVars, extractVars, pipelineVars>>

-----------------------------------------------------------------------------
(* Results of calls *)

NotCalled == [ok |-> FALSE, err |-> "not called", val |-> <<>>]

Ok(v) == [ok |-> TRUE, err |-> "", val |-> v]

Raise(e) == [ok |-> FALSE, err |-> e, val |-> <<>>]

Called(r) == r # NotCalled

-----------------------------------------------------------------------------
(* Python / numpy helpers *)

Min(a, b) == IF a < b THEN a ELSE b

Max(a, b) == IF a > b THEN a ELSE b

\* v[i] for a Python index i (0-based, negative counts from the end).
PyIndex(v, i) == IF i < 0 THEN v[Len(v) + i + 1] ELSE v[i + 1]

\* The bound a Python slice clamps an index to.
PyClamp(v, i) == IF i < 0 THEN Max(Len(v) + i, 0) ELSE Min(i, Len(v))

\* v[a:b] for Python indices a, b.
PySlice(v, a, b) ==
    IF PyClamp(v, b) <= PyClamp(v, a) THEN <<>>
    ELSE SubSeq(v, PyClamp(v, a) + 1, PyClamp(v, b))

-----------------------------------------------------------------------------
(* The three model variants (module docstring, lines 3-21) *)

ModelNames ==
    {"ref_centre_alpha_angle",
     "ref_centre_alpha_angle_circ",
     "ref_centre_alpha_angle_circ_atm"}

-----------------------------------------------------------------------------
(* Parameter codec: parameters_dict_to_vector, lines 218-257 *)

parameters_dict_to_vector_swapped(d, name) ==
    IF name = "ref_centre_alpha_angle" THEN
        Ok(d.flux \o d.background \o
           <<d.xcen_ref, d.ycen_ref, d.zenith_direction, d.zenith_distance,
             d.alphay_ref, d.alphax_ref, d.beta, d.rho>>)
    ELSE IF name = "ref_centre_alpha_angle_circ" THEN
        Ok(d.flux \o d.background \o
           <<d.xcen_ref, d.ycen_ref, d.zenith_distance, d.zenith_direction,
             d.alpha_ref, d.beta>>)
    ELSE IF name = "ref_centre_alpha_angle_circ_atm" THEN
        Ok(d.flux \o d.background \o
           <<d.xcen_ref, d.ycen_ref, d.zenith_direction, d.zenith_distance,
             d.temperature, d.pressure, d.vapour_pressure,
             d.alpha_ref, d.beta>>)
    ELSE Raise("KeyError")

parameters_dict_to_vector(d, name) ==
    IF name = "ref_centre_alpha_angle" THEN
        Ok(d.flux \o d.background \o
           <<d.xcen_ref, d.ycen_ref, d.zenith_direction, d.zenith_distance,
             d.alphax_ref, d.alphay_ref, d.beta, d.rho>>)
    ELSE IF name = "ref_centre_alpha_angle_circ" THEN
        Ok(d.flux \o d.background \o
           <<d.xcen_ref, d.ycen_ref, d.zenith_direction, d.zenith_distance,
             d.alpha_ref, d.beta>>)
    ELSE IF name = "ref_centre_alpha_angle_circ_atm" THEN
        Ok(d.flux \o d.background \o
           <<d.temperature, d.pressure, d.vapour_pressure,
             d.xcen_ref, d.ycen_ref, d.zenith_direction, d.zenith_distance,
             d.alpha_ref, d.beta>>)
    ELSE Raise("KeyError")

(* parameters_vector_to_dict, lines 259-299.  n_slice is Python 2 integer  *)
(* division; the scalars are read with negative indices; a vector shorter  *)
(* than the variant's scalar count makes the first negative index raise.   *)

parameters_vector_to_dict_shifted(v, name) ==
    IF name = "ref_centre_alpha_angle" THEN
        IF Len(v) < 8 THEN Raise("IndexError") ELSE
        LET n_slice == (Len(v) - 8) \div 2 IN
        Ok([flux |-> PySlice(v, 0, n_slice),
            background |-> PySlice(v, n_slice, 2 * n_slice),
            xcen_ref |-> PyIndex(v, -8),
            ycen_ref |-> PyIndex(v, -7),
            zenith_direction |-> PyIndex(v, -6),
            zenith_distance |-> PyIndex(v, -5),
            alphax_ref |-> PyIndex(v, -4),
            alphay_ref |-> PyIndex(v, -3),
            beta |-> PyIndex(v, -1),
            rho |-> PyIndex(v, -1)])
    ELSE IF name = "ref_centre_alpha_angle_circ" THEN
        IF Len(v) < 6 THEN Raise("IndexError") ELSE
        LET n_slice == (Len(v) - 6) \div 2 IN
        Ok([flux |-> PySlice(v, 0, n_slice),
            background |-> PySlice(v, n_slice, 2 * n_slice),
            xcen_ref |-> PyIndex(v, -6),
            ycen_ref |-> PyIndex(v, -5),
            zenith_direction |-> PyIndex(v, -4),
            zenith_distance |-> PyIndex(v, -3),
            alpha_ref |-> PyIndex(v, -1),
            beta |-> PyIndex(v, -1)])
    ELSE IF name = "ref_centre_alpha_angle_circ_atm" THEN
        IF Len(v) < 9 THEN Raise("IndexError") ELSE
        LET n_slice == (Len(v) - 8) \div 2 IN
        Ok([flux |-> PySlice(v, 0, n_slice),
            background |-> PySlice(v, n_slice, 2 * n_slice),
            temperature |-> PyIndex(v, -9),
            pressure |-> PyIndex(v, -8),
            vapour_pressure |-> PyIndex(v, -7),
            xcen_ref |-> PyIndex(v, -6),
            ycen_ref |-> PyIndex(v, -5),
            zenith_direction |-> PyIndex(v, -4),
            zenith_distance |-> PyIndex(v, -3),
            alpha_ref |-> PyIndex(v, -2),
            beta |-> PyIndex(v, -1)])
    ELSE Raise("KeyError")

parameters_vector_to_dict(v, name) ==
    IF name = "ref_centre_alpha_angle" THEN
        IF Len(v) < 8 THEN Raise("IndexError") ELSE
        LET n_slice == (Len(v) - 8) \div 2 IN
        Ok([flux |-> PySlice(v, 0, n_slice),
            background |-> PySlice(v, n_slice, 2 * n_slice),
            xcen_ref |-> PyIndex(v, -8),
            ycen_ref |-> PyIndex(v, -7),
            zenith_direction |-> PyIndex(v, -6),
            zenith_distance |-> PyIndex(v, -5),
            alphax_ref |-> PyIndex(v, -4),
            alphay_ref |-> PyIndex(v, -3),
            beta |-> PyIndex(v, -2),
            rho |-> PyIndex(v, -1)])
    ELSE IF name = "ref_centre_alpha_angle_circ" THEN
        IF Len(v) < 6 THEN Raise("IndexError") ELSE
        LET n_slice == (Len(v) - 6) \div 2 IN
        Ok([flux |-> PySlice(v, 0, n_slice),
            background |-> PySlice(v, n_slice, 2 * n_slice),
            xcen_ref |-> PyIndex(v, -6),
            ycen_ref |-> PyIndex(v, -5),
            zenith_direction |-> PyIndex(v, -4),
            zenith_distance |-> PyIndex(v, -3),
            alpha_ref |-> PyIndex(v, -2),
            beta |-> PyIndex(v, -1)])
    ELSE IF name = "ref_centre_alpha_angle_circ_atm" THEN
        IF Len(v) < 9 THEN Raise("IndexError") ELSE
        LET n_slice == (Len(v) - 9) \div 2 IN
        Ok([flux |-> PySlice(v, 0, n_slice),
            background |-> PySlice(v, n_slice, 2 * n_slice),
            temperature |-> PyIndex(v, -9),
            pressure |-> PyIndex(v, -8),
            vapour_pressure |-> PyIndex(v, -7),
            xcen_ref |-> PyIndex(v, -6),
            ycen_ref |-> PyIndex(v, -5),
            zenith_direction |-> PyIndex(v, -4),
            zenith_distance |-> PyIndex(v, -3),
            alpha_ref |-> PyIndex(v, -2),
            beta |-> PyIndex(v, -1)])
    ELSE Raise("KeyError")

-----------------------------------------------------------------------------
(* Fixed-point arithmetic.  Floating-point quantities are integers in a    *)
(* stated unit; every product or quotient is rounded toward zero, as a     *)
(* floating-point operation rounds.  All intermediate values stay below    *)
(* 2^31.                                                                   *)
(*   wavelength                     Angstrom                               *)
(*   xcen, ycen, alpha, dar         1e-3 arcsec                            *)
(*   beta, rho, cos, sin, tan       1e-3                                   *)
(*   zenith_direction, _distance    pi/8                                   *)
(*   temperature / pressures        degree C / mm Hg                       *)
(*   refractive index               1e-9                                   *)

Abs(a) == IF a < 0 THEN 0 - a ELSE a

Sign(a) == IF a < 0 THEN 0 - 1 ELSE 1

\* The greatest common divisor of a >= 0 and b >= 0.
RECURSIVE Gcd(_, _)
Gcd(a, b) == IF b = 0 THEN a ELSE Gcd(b, a % b)

\* floor(a * b / d) for 0 <= a, b and 0 < d <= 10^6, without forming a * b
\* (it forms a * (b \div 1000) and a * (b % 1000): the larger factor goes second).
MulDivNat(a, b, d) ==
    LET bh == b \div 1000
        bl == b % 1000
        q1 == (a * bh) \div d
        r1 == (a * bh) % d
    IN  q1 * 1000 + (r1 * 1000 + a * bl) \div d

\* a * b / d rounded toward zero, for d > 0.
MulDiv(a, b, d) == Sign(a) * Sign(b) * MulDivNat(Abs(a), Abs(b), d)

\* A float: <<>> is NaN, <<v>> is the finite value v, <<s, 0>> is the
\* infinity of sign s (the quotient s / 0).
NaN == <<>>

Fin(v) == <<v>>

Inf(s) == <<s, 0>>

IsInf(x) == Len(x) = 2

\* np.isfinite
IsFinite(x) == x # NaN /\ ~IsInf(x)

\* A number the model does not compute: a coordinate of the point at which
\* scipy's leastsq ends, a sample smoothed by scipy's gaussian_filter1d, or
\* an expression of such numbers.  It is kept as an integer above every
\* number the model computes with; as a float, Fin of it is a float the
\* model does not compute, finite or not.
Uninterpreted(i) == 1000000000 + i

IsInterpreted(x) == x < 1000000000

\* The value of an expression of the numbers args.
Of(args, value) ==
    IF \A k \in 1..Len(args) : IsInterpreted(args[k]) THEN value
    ELSE Uninterpreted(0)

\* np.cos, np.sin of k * pi/8, in 1e-3.
CosTable == <<1000, 924, 707, 383, 0, -383, -707, -924,
              -1000, -924, -707, -383, 0, 383, 707, 924>>

Cos(k) == CosTable[(k % 16) + 1]

Sin(k) == CosTable[((k + 12) % 16) + 1]

\* np.tan of k * pi/8 for 0 <= k <= 3, in 1e-3.
TanTable == <<0, 414, 1000, 2414>>

Tan(k) == TanTable[k + 1]

\* y ** 5 * x for y, x in 1e-3, in 1e-3, each product rounded.
PowFiveTimes(y, x) ==
    MulDiv(MulDiv(MulDiv(MulDiv(MulDiv(y, y, 1000), y, 1000), y, 1000),
                  y, 1000), x, 1000)

\* The largest y in lo..hi with y ** 5 * x <= 1 (bisection; lo satisfies it).
RECURSIVE FifthRootSearch(_, _, _)
FifthRootSearch(x, lo, hi) ==
    IF lo >= hi THEN lo
    ELSE LET mid == (lo + hi + 1) \div 2 IN
         IF PowFiveTimes(mid, x) <= 1000
         THEN FifthRootSearch(x, mid, hi)
         ELSE FifthRootSearch(x, lo, mid - 1)

\* x ** (-0.2) for 0.1 <= x <= 10, x and the result in 1e-3.
PowMinusFifth(x) == FifthRootSearch(x, 600, 1600)

-----------------------------------------------------------------------------
(* Chromatic laws: alpha, dar, refractive_index, lines 44, 375-408 *)

REFERENCE_WAVELENGTH == 5000

\* refractive_index, lines 389-408.  An optional argument is None or Some(x).
None == <<>>

Some(x) == <<x>>

refractive_index(wl_angstrom, temperature_in, pressure_in, vapour_in) ==
    LET temperature == IF temperature_in = None THEN 7 ELSE temperature_in[1]
        pressure == IF pressure_in = None THEN 600 ELSE pressure_in[1]
        vapour_pressure == IF vapour_in = None THEN 8 ELSE vapour_in[1]
        \* 1 / wl**2 with wl = wavelength * 1e-4, in 1e-2
        invwl2 == ((10000000 \div wl_angstrom) * (10000000 \div wl_angstrom))
                      \div 10000
        \* in 1e-3
        seaLevelDry == 64328 + MulDiv(100, 29498100, 14600 - invwl2)
                             + MulDiv(255400, 100, 4100 - invwl2)
        \* 1 + (1.049 - 0.0157 T) * 1e-6 * P and 1 + 0.003661 T, in 1e-6
        pfactor == 1000000 + ((10490 - 157 * temperature) * pressure)
                                 \div 10000
        tfactor == 1000000 + 3661 * temperature
        \* in 1e-6
        altitudeCorrection ==
            MulDiv(pressure * pfactor, 1000,
                   MulDiv(720883, tfactor, 1000000))
        \* in 1e-9
        vapourCorrection ==
            MulDiv((62400 - (680 * invwl2) \div 100) * vapour_pressure,
                   1000, tfactor)
    IN  1000000000 + MulDiv(seaLevelDry, altitudeCorrection, 1000000)
            - vapourCorrection

\* dar, lines 379-387: 206265 * (n_observed - n_reference) * tan(zd).
dar_other_reference(wavelength, zenith_distance, temperature, pressure, vapour_pressure) ==
    LET n_observed == refractive_index(wavelength, temperature, pressure,
                                       vapour_pressure)
        n_reference == refractive_index(4000, temperature,
                                        pressure, vapour_pressure)
    IN  MulDiv(MulDiv(n_observed - n_reference, 206265, 1000000),
               Tan(zenith_distance), 1000)

dar(wavelength, zenith_distance, temperature, pressure, vapour_pressure) ==
    LET n_observed == refractive_index(wavelength, temperature, pressure,
                                       vapour_pressure)
        n_reference == refractive_index(REFERENCE_WAVELENGTH, temperature,
                                        pressure, vapour_pressure)
    IN  MulDiv(MulDiv(n_observed - n_reference, 206265, 1000000),
               Tan(zenith_distance), 1000)

\* alpha, lines 375-377: alpha_ref * (wavelength / REF) ** (-0.2).
alpha(wavelength, alpha_ref) ==
    MulDiv(alpha_ref,
           PowMinusFifth((wavelength * 1000) \div REFERENCE_WAVELENGTH),
           1000)

-----------------------------------------------------------------------------
(* parameters_dict_to_array, lines 301-373: one record per wavelength *)

\* SliceColumn copying the first n entries of a column that is too long.
SliceColumn_truncating(column, n, i) == IF Len(column) >= n THEN column[i] ELSE 0

\* The flux / background column: copied only when the lengths agree, else
\* left as np.zeros made it.
SliceColumn(column, n, i) == IF Len(column) = n THEN column[i] ELSE 0

parameters_dict_to_array(d, wavelength, name) ==
    LET n == Len(wavelength) IN
    IF name = "ref_centre_alpha_angle" THEN
        Ok([i \in 1..n |->
            [xcen |-> Of(<<d.xcen_ref, d.zenith_direction, d.zenith_distance>>,
                        d.xcen_ref + MulDiv(Cos(d.zenith_direction),
                            dar(wavelength[i], d.zenith_distance,
                                None, None, None), 1000)),
             ycen |-> Of(<<d.ycen_ref, d.zenith_direction, d.zenith_distance>>,
                        d.ycen_ref + MulDiv(Sin(d.zenith_direction),
                            dar(wavelength[i], d.zenith_distance,
                                None, None, None), 1000)),
             alphax |-> Of(<<d.alphax_ref>>, alpha(wavelength[i], d.alphax_ref)),
             alphay |-> Of(<<d.alphay_ref>>, alpha(wavelength[i], d.alphay_ref)),
             beta |-> d.beta,
             rho |-> d.rho,
             flux |-> SliceColumn(d.flux, n, i),
             background |-> SliceColumn(d.background, n, i)]])
    ELSE IF name = "ref_centre_alpha_angle_circ" THEN
        Ok([i \in 1..n |->
            [xcen |-> Of(<<d.xcen_ref, d.zenith_direction, d.zenith_distance>>,
                        d.xcen_ref + MulDiv(Cos(d.zenith_direction),
                            dar(wavelength[i], d.zenith_distance,
                                None, None, None), 1000)),
             ycen |-> Of(<<d.ycen_ref, d.zenith_direction, d.zenith_distance>>,
                        d.ycen_ref + MulDiv(Sin(d.zenith_direction),
                            dar(wavelength[i], d.zenith_distance,
                                None, None, None), 1000)),
             alphax |-> Of(<<d.alpha_ref>>, alpha(wavelength[i], d.alpha_ref)),
             alphay |-> Of(<<d.alpha_ref>>, alpha(wavelength[i], d.alpha_ref)),
             beta |-> d.beta,
             rho |-> 0,
             flux |-> SliceColumn(d.flux, n, i),
             background |-> SliceColumn(d.background, n, i)]])
    ELSE IF name = "ref_centre_alpha_angle_circ_atm" THEN
        Ok([i \in 1..n |->
            [xcen |-> Of(<<d.xcen_ref, d.zenith_direction, d.zenith_distance,
                          d.temperature, d.pressure, d.vapour_pressure>>,
                        d.xcen_ref + MulDiv(Cos(d.zenith_direction),
                            dar(wavelength[i], d.zenith_distance,
                                Some(d.temperature), Some(d.pressure),
                                Some(d.vapour_pressure)), 1000)),
             ycen |-> Of(<<d.ycen_ref, d.zenith_direction, d.zenith_distance,
                          d.temperature, d.pressure, d.vapour_pressure>>,
                        d.ycen_ref + MulDiv(Sin(d.zenith_direction),
                            dar(wavelength[i], d.zenith_distance,
                                Some(d.temperature), Some(d.pressure),
                                Some(d.vapour_pressure)), 1000)),
             alphax |-> Of(<<d.alpha_ref>>, alpha(wavelength[i], d.alpha_ref)),
             alphay |-> Of(<<d.alpha_ref>>, alpha(wavelength[i], d.alpha_ref)),
             beta |-> d.beta,
             rho |-> 0,
             flux |-> SliceColumn(d.flux, n, i),
             background |-> SliceColumn(d.background, n, i)]])
    ELSE Raise("KeyError")

-----------------------------------------------------------------------------
(* first_guess_parameters, lines 172-216.  datatube and vartube are        *)
(* n_fibre x n_slice matrices (sequences of rows) of finite values, the    *)
(* variances positive; xfibre, yfibre are in 1e-3 arcsec.  The centres of  *)
(* the returned record are numbers in 1e-3 arcsec, or the floats NaN,      *)
(* Inf(1), Inf(-1) when the weights sum to 0.                              *)

RECURSIVE SumSeq(_)
SumSeq(q) == IF q = <<>> THEN 0 ELSE q[1] + SumSeq(Tail(q))

\* np.sum(datatube / vartube, axis=1), in 1e-3, before normalisation.
WeightedData(datatube, vartube) ==
    [f \in 1..Len(datatube) |->
        SumSeq([s \in 1..Len(datatube[f]) |->
                   MulDiv(datatube[f][s], 1000, vartube[f][s])])]

\* np.sum of terms that are each NaN or an infinity: NaN when a term is
\* NaN or both infinities occur, else the infinity; 0 of no term at all.
SumNonFinite(terms) ==
    IF terms = <<>> THEN 0
    ELSE IF \E f \in 1..Len(terms) : terms[f] = NaN THEN NaN
    ELSE IF \E f, g \in 1..Len(terms) : terms[f] # terms[g] THEN NaN
    ELSE terms[1]

\* np.sum(position * weighted_data) after weighted_data /= its sum, lines
\* 178-182.  When the weights sum to 0 the division gives NaN (0 / 0) or an
\* infinity for every fibre, and the centre is the float NaN, Inf(1) or
\* Inf(-1); otherwise it is a number in the units of position.
Centroid(position, weighted) ==
    IF SumSeq(weighted) = 0
    THEN SumNonFinite([f \in 1..Len(position) |->
             IF weighted[f] = 0 \/ position[f] = 0 THEN NaN
             ELSE Inf(Sign(weighted[f]) * Sign(position[f]))])
    ELSE SumSeq([f \in 1..Len(position) |->
             MulDiv(position[f],
                    MulDiv(weighted[f] * Sign(SumSeq(weighted)), 1000000,
                           Abs(SumSeq(weighted))),
                    1000000)])

\* np.nansum(datatube, axis=0): one entry per slice.
SliceSums(datatube) ==
    IF datatube = <<>> THEN <<>>
    ELSE [s \in 1..Len(datatube[1]) |->
             SumSeq([f \in 1..Len(datatube) |-> datatube[f][s]])]

first_guess_parameters_fallback(datatube, vartube, xfibre, yfibre, wavelength, name) ==
    LET weighted == WeightedData(datatube, vartube)
        flux == SliceSums(datatube)
        background == [s \in 1..Len(flux) |-> 0]
    IN
    IF name = "ref_centre_alpha_angle" THEN
        Ok([flux |-> flux, background |-> background,
            xcen_ref |-> Centroid(xfibre, weighted),
            ycen_ref |-> Centroid(yfibre, weighted),
            zenith_direction |-> 2, zenith_distance |-> 1,
            alphax_ref |-> 1000, alphay_ref |-> 1000,
            beta |-> 4000, rho |-> 0])
    ELSE IF name = "ref_centre_alpha_angle_circ" THEN
        Ok([flux |-> flux, background |-> background,
            xcen_ref |-> Centroid(xfibre, weighted),
            ycen_ref |-> Centroid(yfibre, weighted),
            zenith_direction |-> 2, zenith_distance |-> 1,
            alpha_ref |-> 1000, beta |-> 4000])
    ELSE
        Ok([flux |-> flux, background |-> background,
            temperature |-> 7, pressure |-> 600, vapour_pressure |-> 8,
            xcen_ref |-> Centroid(xfibre, weighted),
            ycen_ref |-> Centroid(yfibre, weighted),
            zenith_direction |-> 2, zenith_distance |-> 1,
            alpha_ref |-> 1000, beta |-> 4000])

first_guess_parameters(datatube, vartube, xfibre, yfibre, wavelength, name) ==
    LET weighted == WeightedData(datatube, vartube)
        flux == SliceSums(datatube)
        background == [s \in 1..Len(flux) |-> 0]
    IN
    IF name = "ref_centre_alpha_angle" THEN
        Ok([flux |-> flux, background |-> background,
            xcen_ref |-> Centroid(xfibre, weighted),
            ycen_ref |-> Centroid(yfibre, weighted),
            zenith_direction |-> 2, zenith_distance |-> 1,
            alphax_ref |-> 1000, alphay_ref |-> 1000,
            beta |-> 4000, rho |-> 0])
    ELSE IF name = "ref_centre_alpha_angle_circ" THEN
        Ok([flux |-> flux, background |-> background,
            xcen_ref |-> Centroid(xfibre, weighted),
            ycen_ref |-> Centroid(yfibre, weighted),
            zenith_direction |-> 2, zenith_distance |-> 1,
            alpha_ref |-> 1000, beta |-> 4000])
    ELSE IF name = "ref_centre_alpha_angle_circ_atm" THEN
        Ok([flux |-> flux, background |-> background,
            temperature |-> 7, pressure |-> 600, vapour_pressure |-> 8,
            xcen_ref |-> Centroid(xfibre, weighted),
            ycen_ref |-> Centroid(yfibre, weighted),
            zenith_direction |-> 2, zenith_distance |-> 1,
            alpha_ref |-> 1000, beta |-> 4000])
    ELSE Raise("KeyError")

(* fit_model_flux, lines 162-170.  scipy's leastsq is outside the          *)
(* repository.  It refuses (TypeError) a problem of more parameters than   *)
(* residuals; otherwise it returns the point at which it ends, a vector    *)
(* shaped like its starting point.  The coordinates of that point are      *)
(* numbers the model leaves uninterpreted, whatever the starting point     *)
(* (a NaN or infinite centre included): the i-th is Uninterpreted(i).      *)

leastsq(x0, n_residual) ==
    IF Len(x0) > n_residual THEN Raise("TypeError")
    ELSE Ok([i \in 1..Len(x0) |-> Uninterpreted(i)])

\* len(residual(...)), line 160: np.ravel of an n_fibre x n_slice array.
ResidualCount(datatube) ==
    IF datatube = <<>> THEN 0 ELSE Len(datatube) * Len(datatube[1])

FitWith(x0, datatube, name) ==
    IF ~x0.ok THEN x0
    ELSE IF ~leastsq(x0.val, ResidualCount(datatube)).ok
         THEN leastsq(x0.val, ResidualCount(datatube))
         ELSE parameters_vector_to_dict(
                  leastsq(x0.val, ResidualCount(datatube)).val, name)

fit_model_flux(datatube, vartube, xfibre, yfibre, wavelength, name) ==
    LET par_0_dict == first_guess_parameters(datatube, vartube, xfibre,
                                             yfibre, wavelength, name)
    IN  IF ~par_0_dict.ok THEN par_0_dict
        ELSE FitWith(parameters_dict_to_vector(par_0_dict.val, name),
                     datatube, name)

-----------------------------------------------------------------------------
(* The IFU object (utils.ifu.IFU, outside this file) as the code reads it: *)
(* lambda_range (one wavelength per pixel), xpos_rel / ypos_rel (one per   *)
(* fibre), data and var (n_fibre x n_pixel).  The model keeps the matrices *)
(* in a compact form: nan[p] is the set of fibres whose data is NaN at     *)
(* pixel p, every other sample of fibre f is level + f, variance noise.    *)

NFibre(u) == Len(u.xpos_rel)

\* ifu.data[f, p] and ifu.var[f, p] (1-based).
IfuData(u, f, p) == IF f \in u.nan[p] THEN NaN ELSE Fin(u.level + f)

IfuVar(u, f, p) == IF f \in u.nan[p] THEN NaN ELSE Fin(u.noise)

RECURSIVE SumFin(_)
SumFin(q) == IF q = <<>> THEN 0 ELSE q[1][1] + SumFin(Tail(q))

\* The increasing sequence of the members of a set of integers.
RECURSIVE SortedSeq(_)
SortedSeq(S) ==
    IF S = {} THEN <<>>
    ELSE LET m == CHOOSE x \in S : \A y \in S : x <= y
         IN  <<m>> \o SortedSeq(S \ {m})

-----------------------------------------------------------------------------
(* extract_total_flux, lines 492-522.  `fitted` records, per pixel, the    *)
(* fibres handed to moffat_normalised and leastsq (<<>>: no fit was run).  *)
(* A fitted pixel has more than 30 residuals for 2 parameters, so that     *)
(* leastsq never refuses here.                                             *)

\* np.where(np.isfinite(data))[0] for the column of pixel p.
GoodData(u, p) == SortedSeq({f \in 1..NFibre(u) : IsFinite(IfuData(u, f, p))})

\* line 506: "Require at least half the fibres to perform a fit".
EnoughFibres_from_thirty(n_good) == n_good >= 30

EnoughFibres(n_good) == n_good > 30

FittedSlice(fit, good_data) ==
    [flux |-> Fin(fit.val[1]), background |-> Fin(fit.val[2]),
     fitted |-> good_data]

ExtractSlice(u, p) ==
    LET good_data == GoodData(u, p)
        data == [j \in 1..Len(good_data) |-> IfuData(u, good_data[j], p)]
        guess == <<SumFin(data), 0>>
    IN  IF EnoughFibres(Len(good_data))
        THEN FittedSlice(leastsq(guess, Len(good_data)), good_data)
        ELSE [flux |-> NaN, background |-> NaN, fitted |-> <<>>]

extract_total_flux(u, psf_parameters, name) ==
    LET psf_parameters_array ==
            parameters_dict_to_array(psf_parameters, u.lambda_range, name)
    IN  IF ~psf_parameters_array.ok THEN psf_parameters_array
        ELSE LET n_pixel == Len(psf_parameters_array.val)
                 slices == [p \in 1..n_pixel |-> ExtractSlice(u, p)]
             IN  Ok([flux |-> [p \in 1..n_pixel |-> slices[p].flux],
                     background |->
                         [p \in 1..n_pixel |-> slices[p].background],
                     fitted |-> [p \in 1..n_pixel |-> slices[p].fitted]])

-----------------------------------------------------------------------------
(* rebin_flux, lines 647-717, for a 1-D source_flux of the length of       *)
(* source_wavelength, which is what take_ratio passes (observed_flux is    *)
(* the 1-D array extract_total_flux returns).  Wavelengths are integers;   *)
(* bin limits are kept doubled (limit * 2) so that midpoints are exact.    *)
(* A fractional bin index is <<whole, num, den>> = whole + num / den, or   *)
(* NaN.  A Python exception is reported with the line that raises it.      *)

RaiseAt(e, line) == [ok |-> FALSE, err |-> e, val |-> <<line>>]

\* originalbinlimits * 2, line 653.
OriginalBinLimits(originalwl) ==
    [j \in 1..(Len(originalwl) - 1) |-> originalwl[j] + originalwl[j + 1]]

\* binlimits * 2, lines 666-669: nowlsteps + 1 limits.
BinLimits(targetwl) ==
    [i \in 1..(Len(targetwl) + 1) |->
        IF i = 1 THEN 2 * targetwl[1]
        ELSE IF i = Len(targetwl) + 1 THEN 2 * targetwl[Len(targetwl)]
        ELSE targetwl[i] + targetwl[i - 1]]

\* np.interp(x, xp, np.arange(len(xp)), left=nan, right=nan), lines 672-674.
InterpIndex(x, xp) ==
    IF x < xp[1] \/ x > xp[Len(xp)] THEN NaN
    ELSE IF x = xp[Len(xp)] THEN <<Len(xp) - 1, 0, 1>>
    ELSE LET j == CHOOSE k \in 1..(Len(xp) - 1) : xp[k] <= x /\ x < xp[k + 1]
         IN  <<j - 1, x - xp[j], xp[j + 1] - xp[j]>>

OrigBinIndex(targetwl, originalwl) ==
    [i \in 1..(Len(targetwl) + 1) |->
        InterpIndex(BinLimits(targetwl)[i], OriginalBinLimits(originalwl))]

\* The source bin indices (0-based, as in the source) that iteration i of
\* the loop collects, lines 685-708; i is the 1-based position of origindex.
RebinIndices(origbinindex, i) ==
    LET lowlimit == origbinindex[i][1] IN
    IF IsFinite(origbinindex[i + 1])
    THEN LET upplimit == origbinindex[i + 1][1]
         IN  <<lowlimit>>
             \o [k \in 1..Max(upplimit - lowlimit - 1, 0) |-> lowlimit + k]
             \o <<upplimit>>
    ELSE <<lowlimit>>

\* One pass of the loop body for a finite origindex, lines 683-712.  It
\* always ends in an exception: origbinindex[i+1] past the end (691), a
\* source bin index past fraccounted (710), or the two-index subscript
\* originalflux[:, indices] applied to the 1-D originalflux (711).
RebinIteration(origbinindex, i, n_original) ==
    IF i + 1 > Len(origbinindex) THEN RaiseAt("IndexError", 691)
    ELSE IF \E k \in 1..Len(RebinIndices(origbinindex, i)) :
                RebinIndices(origbinindex, i)[k] >= n_original
         THEN RaiseAt("IndexError", 710)
         ELSE RaiseAt("IndexError", 711)

\* x / y for numpy floats, in 1e-3: 0 / 0 and inf / inf are NaN, x / 0 is an
\* infinity of the sign of x, x / inf is 0.  The zero is the positive one.
\* A quotient of a float the model does not compute is not computed either,
\* unless the other operand is NaN.
FloatDivide(x, y) ==
    IF x = NaN \/ y = NaN THEN NaN
    ELSE IF (~IsInf(x) /\ ~IsInterpreted(x[1]))
            \/ (~IsInf(y) /\ ~IsInterpreted(y[1]))
         THEN Fin(Uninterpreted(0))
    ELSE IF IsInf(x) THEN (IF IsInf(y) THEN NaN
                          ELSE IF y[1] < 0 THEN Inf(-x[1]) ELSE Inf(x[1]))
    ELSE IF IsInf(y) THEN Fin(0)
    ELSE IF y[1] = 0 THEN (IF x[1] = 0 THEN NaN ELSE Inf(Sign(x[1])))
    ELSE Fin(Sign(y[1]) * MulDiv(x[1], 1000, Abs(y[1])))

rebin_flux(target_wavelength, source_wavelength, source_flux) ==
    LET originaldata == PySlice(source_flux, 1, -1)
        origbinindex == OrigBinIndex(target_wavelength, source_wavelength)
        nowlsteps == Len(target_wavelength)
        finite == {i \in 1..Len(origbinindex) : IsFinite(origbinindex[i])}
    IN  IF finite = {} THEN RaiseAt("ValueError", 680)
        ELSE LET first == CHOOSE i \in finite : \A j \in finite : i <= j
                 pass == RebinIteration(origbinindex, first,
                                        Len(originaldata))
             IN  IF ~pass.ok THEN pass
                 ELSE \* rebinneddata / rebinnedweight, both still np.zeros
                      Ok([i \in 1..nowlsteps |->
                             FloatDivide(Fin(0), Fin(0))])


-----------------------------------------------------------------------------
(* smooth_ratio, lines 617-645, and take_ratio, lines 604-615.  Ratios are *)
(* floats in units of 1e-3.                                                *)

\* slope * (x - xp[j]) + fp[j] with slope = (fp[j+1] - fp[j]) / (xp[j+1] -
\* xp[j]), for xp[j] <= x < xp[j+1], as floats: a slope that is not finite
\* gives NaN at the knot (inf * 0) and wherever fp[j] is not finite.
InterpSegment(x, x0, x1, f0, f1) ==
    IF f0 = NaN \/ f1 = NaN \/ IsInf(f0) THEN NaN
    ELSE IF IsInf(f1) THEN (IF x = x0 THEN NaN ELSE f1)
    ELSE Fin(Of(<<f0[1], f1[1]>>,
                f0[1] + MulDiv(f1[1] - f0[1], x - x0, x1 - x0)))

\* np.interp(x, xp, fp) with the default clamping at both ends: fp[0] left
\* of the first knot, fp[-1] from the last knot on, the segment's line
\* elsewhere, the first knot included.
Interp(x, xp, fp) ==
    IF x < xp[1] THEN fp[1]
    ELSE IF x >= xp[Len(xp)] THEN fp[Len(fp)]
    ELSE LET j == CHOOSE k \in 1..(Len(xp) - 1) : xp[k] <= x /\ x < xp[k + 1]
         IN  InterpSegment(x, xp[j], xp[j + 1], fp[j], fp[j + 1])

\* gaussian_filter1d(input, sigma, mode='nearest') of scipy.ndimage, on
\* finite values: sample i is the average of the samples within
\* int(4 sigma + 0.5) places of i (the end samples repeated beyond the ends)
\* under normalised Gaussian weights.  An average of zeros is 0; any other
\* one is a number the model does not compute.
gaussian_filter1d(input, sigma) ==
    LET lw == (8 * sigma + 1) \div 2
        at(i) == input[Max(1, Min(Len(input), i))]
    IN  [i \in 1..Len(input) |->
            IF \A k \in (i - lw)..(i + lw) : at(k) = 0 THEN 0
            ELSE Uninterpreted(i)]

\* inverse_cut[~good] = np.interp(...), lines 626-627: values of the
\* trimmed array, with the NaNs in the middle interpolated.
FillGaps(inverse_cut) ==
    LET good == {i \in 1..Len(inverse_cut) : IsFinite(inverse_cut[i])}
        xp == SortedSeq(good)
        fp == [k \in 1..Len(xp) |-> inverse_cut[xp[k]]]
    IN  [i \in 1..Len(inverse_cut) |->
            IF i \in good THEN inverse_cut[i][1] ELSE Interp(i, xp, fp)[1]]

\* inverse_cut[extra+1:1:-1], line 633.
LeftMirror(cut, extra) ==
    LET start == Min(extra + 1, Len(cut) - 1)
    IN  [k \in 1..Max(0, start - 1) |-> cut[start + 2 - k]]

\* inverse_cut[-1:-1*(extra+1):-1], line 635.
RightMirror(cut, extra) ==
    [k \in 1..Min(extra, Len(cut)) |-> cut[Len(cut) + 1 - k]]

\* Assignment of a 1-D value to a slice of length n: same length or length 1.
Broadcasts(value, n) == Len(value) = n \/ Len(value) = 1

\* Lines 621-635: the trimmed reciprocal inverse_cut, its place first..last
\* in the array, and inverse_extended, its padding at both ends.
inverse_extended(ratio, width) ==
    LET inverse == [i \in 1..Len(ratio) |-> FloatDivide(Fin(1000), ratio[i])]
        useful == {i \in 1..Len(inverse) : IsFinite(inverse[i])}
    IN  IF useful = {} THEN RaiseAt("IndexError", 624)
        ELSE
        LET first == CHOOSE i \in useful : \A j \in useful : i <= j
            last == CHOOSE i \in useful : \A j \in useful : j <= i
            inverse_cut == FillGaps(SubSeq(inverse, first, last))
            extra == 3 * width
            left == LeftMirror(inverse_cut, extra)
            right == RightMirror(inverse_cut, extra)
        IN  IF ~Broadcasts(left, extra) THEN RaiseAt("ValueError", 633)
            ELSE IF ~Broadcasts(right, extra) THEN RaiseAt("ValueError", 634)
            ELSE Ok([first |-> first, last |-> last, extra |-> extra,
                     inverse |-> inverse,
                     inverse_cut |-> inverse_cut,
                     inverse_extended |->
                         [k \in 1..extra |->
                             2 * inverse_cut[1]
                             - left[IF Len(left) = 1 THEN 1 ELSE k]]
                         \o inverse_cut
                         \o [k \in 1..extra |->
                             2 * inverse_cut[Len(inverse_cut)]
                             - right[IF Len(right) = 1 THEN 1 ELSE k]]])

\* Lines 637-645: the smoothing of the padded array, the removal of the
\* padding and the return to a ratio; padded is the value of
\* inverse_extended.  Between first and last the ratio is the reciprocal of
\* a smoothed sample: the infinity 1 / 0, or a float the model does not
\* compute.
SmoothPadded(ratio, width, padded) ==
    IF ~padded.ok THEN padded
    ELSE Ok([i \in 1..Len(ratio) |->
                IF i >= padded.val.first /\ i <= padded.val.last
                THEN FloatDivide(
                         Fin(1000),
                         Fin(gaussian_filter1d(padded.val.inverse_extended,
                                               width)
                                 [padded.val.extra + i - padded.val.first + 1]))
                ELSE FloatDivide(Fin(1000), padded.val.inverse[i])])

smooth_ratio(ratio, width) ==
    SmoothPadded(ratio, width, inverse_extended(ratio, width))

take_ratio(standard_flux, standard_wavelength, observed_flux, observed_wavelength, smooth) ==
    LET observed_flux_rebinned ==
            rebin_flux(standard_wavelength, observed_wavelength,
                       observed_flux)
    IN  IF ~observed_flux_rebinned.ok THEN observed_flux_rebinned
        ELSE
        LET ratio == [i \in 1..Len(standard_flux) |->
                         FloatDivide(standard_flux[i],
                                     observed_flux_rebinned.val[i])]
            smoothed == IF smooth THEN smooth_ratio(ratio, 10) ELSE Ok(ratio)
        IN  IF ~smoothed.ok THEN smoothed
            ELSE Ok([i \in 1..Len(observed_wavelength) |->
                        Interp(observed_wavelength[i], standard_wavelength,
                               smoothed.val)])

-----------------------------------------------------------------------------
(* save_extracted_flux, lines 531-562, and save_transfer_function, lines   *)
(* 564-579.  A FITS file is the sequence of its HDUs; an HDU has a name, a *)
(* header (here: the star the record was made for) and data, a sequence of *)
(* rows.  A row is a 1-D array of the file's pixel count and is kept as    *)
(* one value.  pf.open(path, 'update') ... close() writes the list back.   *)

HDU_NAME == "FLUX_CALIBRATION"

\* hdulist.index_of(name): the 0-based place of the HDU of that name.
index_of(hdus, name) ==
    IF \E i \in 1..Len(hdus) : hdus[i].name = name
    THEN Ok((CHOOSE i \in 1..Len(hdus) :
                /\ hdus[i].name = name
                /\ \A j \in 1..(i - 1) : hdus[j].name # name) - 1)
    ELSE Raise("KeyError")

\* del hdulist[index], index 0-based.
DeleteAt(hdus, index) ==
    [i \in 1..(Len(hdus) - 1) |-> IF i <= index THEN hdus[i] ELSE hdus[i + 1]]

save_extracted_flux(hdus, observed_flux, observed_background, star_match) ==
    LET data == <<observed_flux, observed_background>>
        new_hdu == [name |-> HDU_NAME, header |-> star_match, data |-> data]
        existing_index == index_of(hdus, HDU_NAME)
        kept == IF existing_index.ok
                THEN DeleteAt(hdus, existing_index.val)
                ELSE hdus
    IN  Ok(Append(kept, new_hdu))

save_transfer_function_appending(hdus, transfer_function) ==
    LET found == index_of(hdus, HDU_NAME)
    IN  IF ~found.ok THEN found
        ELSE LET data == hdus[found.val + 1].data
             IN  Ok([hdus EXCEPT ![found.val + 1].data =
                        IF Len(data) \in {2, 3}
                        THEN Append(data, transfer_function)
                        ELSE data])

save_transfer_function(hdus, transfer_function) ==
    LET found == index_of(hdus, HDU_NAME)
    IN  IF ~found.ok THEN found
        ELSE LET data == hdus[found.val + 1].data
             IN  Ok([hdus EXCEPT ![found.val + 1].data =
                        IF Len(data) = 2
                        THEN Append(data, transfer_function)
                        ELSE IF Len(data) = 3
                        THEN [data EXCEPT ![3] = transfer_function]
                        ELSE data])

-----------------------------------------------------------------------------
(* match_standard_star, lines 444-462, and match_star_coordinates, lines   *)
(* 464-490.  numpy and astropy are outside the repository.  What the       *)
(* installed astropy answers is the state variable astropy:                *)
(*   version            astropy.__version__                                *)
(*   ICRSCoordinates    for each pair of strings ICRSCoordinates accepts,  *)
(*                      [ra, dec]: .ra.degrees and .dec.degrees of the     *)
(*                      object it returns, in arcsec                       *)
(*   AngularSeparation  for each four arguments (degrees, here in arcsec)  *)
(*                      it is called with, .arcsecs of the object          *)
(*                      AngularSeparation returns, in 1e-3 arcsec          *)
(* The state variable index_files maps the path of an index file to its    *)
(* data lines.  A line is the sequence of its columns; a column, like      *)
(* every string of these lines, is the sequence of its characters.  A path *)
(* is the sequence of its components.  A fibre table gives FIB_MRA and     *)
(* FIB_MDEC in whole arcsec, and the mean of a column is the exact         *)
(* quotient <<numerator, denominator>> in lowest terms.                    *)

\* num / den for den > 0, in lowest terms.
Fraction(num, den) ==
    <<num \div Gcd(Abs(num), den), den \div Gcd(Abs(num), den)>>

\* coord.ICRSCoordinates(RAstring, Decstring), line 472: the library
\* raises on strings it cannot read as angles (a ValueError here).
ICRSCoordinates(RAstring, Decstring) ==
    IF <<RAstring, Decstring>> \in DOMAIN astropy.ICRSCoordinates
    THEN Ok(astropy.ICRSCoordinates[<<RAstring, Decstring>>])
    ELSE RaiseAt("ValueError", 472)

\* coord.angles.AngularSeparation(ra, dec, ra_star, dec_star,
\* units.degree).arcsecs, lines 480-481, in 1e-3 arcsec.
AngularSeparation(ra, dec, ra_star, dec_star) ==
    astropy.AngularSeparation[<<ra, dec, ra_star, dec_star>>]

\* np.loadtxt(index_path, dtype='S') of a file of these data lines, as the
\* sequence "for star in index" runs through, each star as the sequence of
\* the items star[0], star[1], ...  np.loadtxt squeezes its array: of a
\* file of several lines and columns the stars are the lines; of a file of
\* one line, or of one column, they are the single strings, and the items
\* of a string are its characters; of a file of one string the array has no
\* dimension and cannot be iterated; of a file of no line the array is
\* empty.  Lines of different lengths make no array.
LoadIndex(lines) ==
    IF lines = <<>> THEN Ok(<<>>)
    ELSE IF \E i \in 1..Len(lines) : Len(lines[i]) # Len(lines[1])
         THEN RaiseAt("ValueError", 468)
    ELSE IF Len(lines) = 1 /\ Len(lines[1]) = 1
         THEN RaiseAt("TypeError", 469)
    ELSE IF Len(lines) = 1
         THEN Ok([f \in 1..Len(lines[1]) |->
                     [k \in 1..Len(lines[1][f]) |-> <<lines[1][f][k]>>]])
    ELSE IF Len(lines[1]) = 1
         THEN Ok([i \in 1..Len(lines) |->
                     [k \in 1..Len(lines[i][1]) |-> <<lines[i][1][k]>>]])
    ELSE Ok(lines)

\* Lines 470-479: the coordinates of a star of the index.  Line 470 reads
\* star[4] and line 471 star[7]; the sign of a declination the library of
\* version 0.2.0 returned positive is restored when the degrees column is
\* the string '-'.
StarCoordinates(star) ==
    IF Len(star) < 5 THEN RaiseAt("IndexError", 470)
    ELSE IF Len(star) < 8 THEN RaiseAt("IndexError", 471)
    ELSE LET coords_star ==
                 ICRSCoordinates(
                     star[3] \o <<"h">> \o star[4] \o <<"m">> \o star[5]
                         \o <<"s">>,
                     star[6] \o <<"d">> \o star[7] \o <<"m">> \o star[8]
                         \o <<"s">>)
         IN  IF ~coords_star.ok THEN coords_star
             ELSE Ok([ra_star |-> coords_star.val.ra,
                      dec_star |->
                          IF /\ astropy.version = "0.2.0"
                             /\ star[6] = <<"-">>
                             /\ coords_star.val.dec > 0
                          THEN 0 - coords_star.val.dec
                          ELSE coords_star.val.dec])

\* The return of a loop whose passes 1 .. n return results[k].val unless
\* it is None, or raise: the result of the first pass that returns or
\* raises, None when every pass falls through.
FirstReturn(n, results) ==
    IF \E k \in 1..n : ~results[k].ok \/ results[k].val # None
    THEN results[CHOOSE k \in 1..n :
                     /\ ~results[k].ok \/ results[k].val # None
                     /\ \A j \in 1..(k - 1) :
                            results[j].ok /\ results[j].val = None]
    ELSE Ok(None)

\* Lines 480-488 for a star of these coordinates: the match when the
\* separation is below max_sep_arcsec.
SeparationMatch(sep, max_sep_arcsec, index_path, star) ==
    IF sep < 1000 * max_sep_arcsec
    THEN Ok(Some([path |-> SubSeq(index_path, 1, Len(index_path) - 1)
                           \o <<star[1]>>,
                  name |-> star[2],
                  separation |-> sep]))
    ELSE Ok(None)

\* Lines 470-488: one pass of the loop over the stars of an index.
StarMatch(ra, dec, max_sep_arcsec, index_path, star) ==
    IF ~StarCoordinates(star).ok THEN StarCoordinates(star)
    ELSE SeparationMatch(
             AngularSeparation(ra, dec, StarCoordinates(star).val.ra_star,
                               StarCoordinates(star).val.dec_star),
             max_sep_arcsec, index_path, star)

\* Lines 468-488 for the stars of one index.
IndexMatch(ra, dec, max_sep_arcsec, index_path, index) ==
    IF ~index.ok THEN index
    ELSE FirstReturn(Len(index.val),
                     [k \in 1..Len(index.val) |->
                         StarMatch(ra, dec, max_sep_arcsec, index_path,
                                   index.val[k])])

\* Lines 467-488: one pass of the loop over the catalogues.
CatalogueMatch(ra, dec, max_sep_arcsec, index_path) ==
    IF index_path \notin DOMAIN index_files THEN RaiseAt("IOError", 468)
    ELSE IndexMatch(ra, dec, max_sep_arcsec, index_path,
                    LoadIndex(index_files[index_path]))

\* match_star_coordinates reading the index of the first catalogue only.
match_star_coordinates_first_catalogue(ra, dec, max_sep_arcsec, catalogues) ==
    FirstReturn(Min(1, Len(catalogues)),
                [c \in 1..Len(catalogues) |->
                    CatalogueMatch(ra, dec, max_sep_arcsec, catalogues[c])])

\* ra and dec are means of a fibre table; the result is Ok(Some(match)),
\* Ok(None) or the exception that left.
match_star_coordinates(ra, dec, max_sep_arcsec, catalogues) ==
    FirstReturn(Len(catalogues),
                [c \in 1..Len(catalogues) |->
                    CatalogueMatch(ra, dec, max_sep_arcsec, catalogues[c])])

\* 'SKY' in fibre['PROBENAME']: a name is the sequence of its characters.
IsSky(probename) ==
    \E i \in 1..(Len(probename) - 2) :
        SubSeq(probename, i, i + 2) = <<"S", "K", "Y">>

\* The columns of the fibres of a probe, in table order.
ProbeColumn(fibre_table, probenum, column) ==
    LET rows == SortedSeq({i \in 1..Len(fibre_table) :
                              fibre_table[i].PROBENUM = probenum})
    IN  [k \in 1..Len(rows) |-> fibre_table[rows[k]][column]]

\* np.mean of a column over the fibres of a probe, lines 452-453.
MeanOver(fibre_table, probenum, column) ==
    Fraction(SumSeq(ProbeColumn(fibre_table, probenum, column)),
             Len(ProbeColumn(fibre_table, probenum, column)))

\* np.unique of the PROBENUM of the fibres whose name does not hold 'SKY',
\* lines 448-449: sorted.
ProbenumList(fibre_table) ==
    SortedSeq({fibre_table[i].PROBENUM : i \in
                  {j \in 1..Len(fibre_table) :
                      ~IsSky(fibre_table[j].PROBENAME)}})

\* Lines 457-461: a match is returned with the probe number.
WithProbenum(star_match, probenum) ==
    IF star_match.ok /\ star_match.val # None
    THEN Ok(Some([path |-> star_match.val[1].path,
                  name |-> star_match.val[1].name,
                  separation |-> star_match.val[1].separation,
                  probenum |-> probenum]))
    ELSE star_match

\* Lines 450-461: one pass of the loop over the probes.
ProbeMatch(fibre_table, probenum, max_sep_arcsec, catalogues) ==
    WithProbenum(
        match_star_coordinates(MeanOver(fibre_table, probenum, "FIB_MRA"),
                               MeanOver(fibre_table, probenum, "FIB_MDEC"),
                               max_sep_arcsec, catalogues),
        probenum)

\* The result is Ok(Some(match)), Ok(None) or the exception that left.
match_standard_star(fibre_table, max_sep_arcsec, catalogues) ==
    FirstReturn(Len(ProbenumList(fibre_table)),
                [k \in 1..Len(ProbenumList(fibre_table)) |->
                    ProbeMatch(fibre_table, ProbenumList(fibre_table)[k],
                               max_sep_arcsec, catalogues)])

-----------------------------------------------------------------------------
(* read_standard_data, lines 581-602.  A text file is the sequence of its  *)
(* lines; a line is [kind, wavelength, flux] with kind "number" (it starts *)
(* with a number), "text" (it starts with another word), "comment" (it     *)
(* starts with '#') or "blank".                                            *)

\* The number of lines the while loop skips, or the exception it ends in:
\* float() of a word or of '#' raises ValueError, which is caught; [0] on
\* the empty split of a blank line, or of the '' read at the end of file,
\* raises IndexError, which is not.
RECURSIVE CountHeader(_, _)
CountHeader(lines, skiprows) ==
    IF skiprows + 1 > Len(lines) THEN RaiseAt("IndexError", 590)
    ELSE IF lines[skiprows + 1].kind = "blank" THEN RaiseAt("IndexError", 590)
    ELSE IF lines[skiprows + 1].kind \in {"text", "comment"}
         THEN CountHeader(lines, skiprows + 1)
         ELSE Ok(skiprows)

\* np.loadtxt(path, dtype='d', skiprows=skiprows): after the first skiprows
\* lines, comments and blank lines are skipped wherever they stand and a
\* line of words raises ValueError.
loadtxt(lines, skiprows) ==
    LET rest == SubSeq(lines, skiprows + 1, Len(lines))
        rows == SortedSeq({i \in 1..Len(rest) : rest[i].kind = "number"})
    IN  IF \E i \in 1..Len(rest) : rest[i].kind = "text"
        THEN RaiseAt("ValueError", 597)
        ELSE Ok([k \in 1..Len(rows) |-> rest[rows[k]]])

read_standard_data(lines) ==
    LET skiprows == CountHeader(lines, 0)
    IN  IF ~skiprows.ok THEN skiprows
        ELSE LET star_data == loadtxt(lines, skiprows.val)
             IN  IF ~star_data.ok THEN star_data
                 ELSE IF Len(star_data.val) = 1
                 THEN \* one row loads as a 1-D array: star_data[:, 0]
                      RaiseAt("IndexError", 598)
                 ELSE Ok([wavelength |->
                              [k \in 1..Len(star_data.val) |->
                                  star_data.val[k].wavelength],
                          flux |->
                              [k \in 1..Len(star_data.val) |->
                                  Fin(star_data.val[k].flux)]])

-----------------------------------------------------------------------------
(* chunk_data, lines 94-112, and read_chunked_data, lines 69-92.  The      *)
(* chunked variance is kept in units of 1e-3.                              *)

\* round(num / den) of Python 2 for den > 0: halves go away from zero.
PyRound(num, den) == Sign(num) * ((2 * Abs(num) + den) \div (2 * den))

\* nanmean / median / nansum over the pixels first .. last of one fibre.
FinitePixels(u, f, first, last) ==
    {p \in first..last : IsFinite(IfuData(u, f, p))}

ChunkMean(u, f, first, last) ==
    LET good == FinitePixels(u, f, first, last)
    IN  IF good = {} THEN NaN
        ELSE Fin(SumSeq([k \in 1..(last - first + 1) |->
                            IF first + k - 1 \in good
                            THEN IfuData(u, f, first + k - 1)[1] ELSE 0])
                 \div Cardinality(good))

ChunkVariance(u, f, first, last) ==
    LET good == {p \in first..last : IsFinite(IfuVar(u, f, p))}
    IN  IF good = {} THEN NaN
        ELSE Fin((1000 * SumSeq([k \in 1..(last - first + 1) |->
                                    IF first + k - 1 \in good
                                    THEN IfuVar(u, f, first + k - 1)[1]
                                    ELSE 0]))
                 \div (Cardinality(good) * Cardinality(good)))

\* np.median of the increasing wavelengths first .. last: NaN for a chunk
\* of no pixel (chunk_size = 0).
ChunkMedian(u, first, last) ==
    IF last < first THEN NaN
    ELSE (u.lambda_range[(first + last) \div 2]
          + u.lambda_range[(first + last + 1) \div 2]) \div 2

chunk_data(u, n_drop_in, n_chunk_in) ==
    LET n_pixel == Len(u.lambda_range)
        n_fibre == NFibre(u)
        n_drop == IF n_drop_in = None THEN 24 ELSE n_drop_in[1]
        n_chunk == IF n_chunk_in = None
                   THEN PyRound(n_pixel - 2 * n_drop, 100)
                   ELSE n_chunk_in[1]
    IN  IF n_chunk = 0 THEN RaiseAt("ZeroDivisionError", 102)
        ELSE
        LET chunk_size == IF n_chunk_in = None
                          THEN PyRound(n_pixel - 2 * n_drop, n_chunk)
                          ELSE (n_pixel - 2 * n_drop) \div n_chunk
            start == n_drop
            end == n_drop + n_chunk * chunk_size
            first(c) == start + (c - 1) * chunk_size + 1
            last(c) == start + c * chunk_size
        IN  IF Max(0, PyClamp(u.lambda_range, end)
                      - PyClamp(u.lambda_range, start))
               # n_chunk * chunk_size
            THEN RaiseAt("ValueError", 105)
            ELSE Ok([data |->
                        [f \in 1..n_fibre |-> [c \in 1..n_chunk |->
                            ChunkMean(u, f, first(c), last(c))]],
                     variance |->
                        [f \in 1..n_fibre |-> [c \in 1..n_chunk |->
                            ChunkVariance(u, f, first(c), last(c))]],
                     wavelength |->
                        [c \in 1..n_chunk |->
                            ChunkMedian(u, first(c), last(c))],
                     start |-> start,
                     end |-> end])

\* np.hstack of two fibre x chunk arrays.
HStack(a, b) == [f \in 1..Len(a) |-> a[f] \o b[f]]

\* ifus: the IFU objects IFU(path, probenum) of the files, in order.
RECURSIVE ReadChunks(_, _)
ReadChunks(ifus, so_far) ==
    IF ifus = <<>> THEN Ok(so_far)
    ELSE LET chunk == chunk_data(ifus[1], None, None)
         IN  IF ~chunk.ok THEN chunk
             ELSE ReadChunks(Tail(ifus),
                    IF so_far = <<>>
                    THEN [data |-> chunk.val.data,
                          variance |-> chunk.val.variance,
                          wavelength |-> chunk.val.wavelength]
                    ELSE [data |-> HStack(so_far.data, chunk.val.data),
                          variance |-> HStack(so_far.variance,
                                              chunk.val.variance),
                          wavelength |-> so_far.wavelength
                                         \o chunk.val.wavelength])

\* With no path the loop of lines 73-84 never binds ifu, and line 85
\* reads it.
read_chunked_data(ifus) ==
    LET chunks == ReadChunks(ifus, <<>>)
    IN  IF ifus = <<>> THEN RaiseAt("UnboundLocalError", 85)
        ELSE IF ~chunks.ok THEN chunks
        ELSE Ok([data |-> chunks.val.data,
                 variance |-> chunks.val.variance,
                 wavelength |-> chunks.val.wavelength,
                 xfibre |-> ifus[Len(ifus)].xpos_rel,
                 yfibre |-> ifus[Len(ifus)].ypos_rel])

-----------------------------------------------------------------------------
(* generate_subgrid, lines 48-64.  An angle is a multiple of pi kept as    *)
(* the mixed number <<whole, num, den>> = (whole + num / den) * pi with    *)
(* 0 <= num < den in lowest terms.  The points of a ring are kept as       *)
(* [n_points, radius, rot_angle]: point k = 0 .. n_points - 1 of the ring  *)
(* has theta = 2 pi k / n_points + rot_angle and lies at the distance      *)
(* radius (units of 1e-6) from the centre,                                 *)
(* (xsub, ysub) = (radius cos(theta), radius sin(theta)).                  *)

Angle(whole, num, den) ==
    <<whole + (num \div den),
      (num % den) \div Gcd(num % den, den),
      den \div Gcd(num % den, den)>>

AngleAdd(a, b) ==
    LET common == (a[3] \div Gcd(a[3], b[3])) * b[3]
    IN  Angle(a[1] + b[1],
              a[2] * (common \div a[3]) + b[2] * (common \div b[3]),
              common)

AngleHalf(a) == Angle(a[1] \div 2, (a[1] % 2) * a[3] + a[2], 2 * a[3])

\* np.round(num / 2.0): halves go to the even neighbour.
NpRoundHalves(num) ==
    IF num % 2 = 0 THEN num \div 2
    ELSE IF ((num - 1) \div 2) % 2 = 0 THEN (num - 1) \div 2
    ELSE (num + 1) \div 2

\* The body of the loop of line 54 for the rings i_ring .. n_rings - 1.  The
\* value rot_angle takes after the last ring is never read.
RECURSIVE SubgridRings(_, _, _, _, _)
SubgridRings(i_ring, rot_angle, fibre_radius, n_inner, n_rings) ==
    IF i_ring >= n_rings THEN Ok(<<>>)
    ELSE LET n_points == NpRoundHalves(n_inner * (2 * i_ring + 1))
             \* theta_ring[1], line 60
             second == AngleAdd(Angle(0, 2, n_points), rot_angle)
         IN  IF n_points < 2 THEN RaiseAt("IndexError", 60)
             ELSE LET rest ==
                          SubgridRings(i_ring + 1,
                                       IF i_ring + 1 >= n_rings THEN rot_angle
                                       ELSE AngleAdd(rot_angle,
                                                     AngleHalf(second)),
                                       fibre_radius, n_inner, n_rings)
                  IN  IF ~rest.ok THEN rest
                      ELSE Ok(<<[n_points |-> n_points,
                                 radius |-> ((2 * i_ring + 1) * fibre_radius
                                             * 1000) \div (2 * n_rings),
                                 rot_angle |-> rot_angle]>> \o rest.val)

\* fibre_radius in units of 1e-3.
generate_subgrid(fibre_radius, n_inner, n_rings) ==
    LET rings == SubgridRings(0, Angle(0, 0, 1), fibre_radius, n_inner,
                              n_rings)
    IN  IF ~rings.ok THEN rings
        ELSE IF n_rings = 0 THEN RaiseAt("ZeroDivisionError", 61)
        ELSE rings

-----------------------------------------------------------------------------
(* Bounds of the model *)

MaxSlices == 2

MaxValue == 1

-----------------------------------------------------------------------------
(* Inputs of the codec: well-formed parameter records.  The per-slice      *)
(* arrays range over every sequence of 0..MaxValue of the same length; the *)
(* scalars are pairwise distinct (seed + position in the record) so that   *)
(* any two slots of a vector can be told apart.                            *)

UnknownNames == {"ref_centre_alpha", "moffat"}

AllNames == ModelNames \cup UnknownNames

Seeds == {10, 30}

CodecRecord(variant, flux, background, seed) ==
    IF variant = "ref_centre_alpha_angle" THEN
        [flux |-> flux, background |-> background,
         xcen_ref |-> seed + 1, ycen_ref |-> seed + 2,
         zenith_direction |-> seed + 3, zenith_distance |-> seed + 4,
         alphax_ref |-> seed + 5, alphay_ref |-> seed + 6,
         beta |-> seed + 7, rho |-> seed + 8]
    ELSE IF variant = "ref_centre_alpha_angle_circ" THEN
        [flux |-> flux, background |-> background,
         xcen_ref |-> seed + 1, ycen_ref |-> seed + 2,
         zenith_direction |-> seed + 3, zenith_distance |-> seed + 4,
         alpha_ref |-> seed + 5, beta |-> seed + 7]
    ELSE
        [flux |-> flux, background |-> background,
         xcen_ref |-> seed + 1, ycen_ref |-> seed + 2,
         zenith_direction |-> seed + 3, zenith_distance |-> seed + 4,
         alpha_ref |-> seed + 5, beta |-> seed + 7,
         temperature |-> seed + 9, pressure |-> seed + 10,
         vapour_pressure |-> seed + 11]

CodecRecords(variant) ==
    UNION {{CodecRecord(variant, flux, background, seed) :
                flux \in [1..n -> 0..MaxValue],
                background \in [1..n -> 0..MaxValue],
                seed \in Seeds} : n \in 0..MaxSlices}

\* The variants a record passed under `name` may have.
VariantsFor(name) == IF name \in ModelNames THEN {name} ELSE ModelNames

-----------------------------------------------------------------------------
(* Specification SpecCodec: the codec called on a well-formed record *)

NoIfu ==
    [lambda_range |-> <<>>, xpos_rel |-> <<>>, ypos_rel |-> <<>>,
     nan |-> <<>>, level |-> 0, noise |-> 0]

CallsIdle ==
    /\ wavelength_arg = <<>>
    /\ array_result = NotCalled
    /\ guess_result = NotCalled
    /\ fit_result = NotCalled

ExtractIdle ==
    /\ ifu_arg = NoIfu
    /\ extract_result = NotCalled

NoRebin == [target |-> <<>>, source |-> <<>>, flux |-> <<>>]

NoRatio == [standard_flux |-> <<>>, smooth |-> FALSE, k |-> 0]

RebinIdle ==
    /\ rebin_args = NoRebin
    /\ rebin_result = NotCalled
    /\ ratio_args = NoRatio
    /\ ratio_result = NotCalled

NoSave ==
    [op |-> "none", flux |-> <<>>, background |-> <<>>,
     transfer_function |-> <<>>, before |-> <<>>]

SaveIdle ==
    /\ hdulist = <<>>
    /\ save_call = NoSave
    /\ save_result = NotCalled
    /\ first_op = "none"
    /\ latest_tf = None

NoLocals ==
    [star_match |-> None, standard_data |-> None, chunked_data |-> None,
     psf_parameters |-> None, psf_used |-> {}, index |-> 0,
     observed |-> None, raised |-> None]

DeriveIdle ==
    /\ derive_pc = "idle"
    /\ derive_files = <<>>
    /\ derive_locals = NoLocals
    /\ derive_trace = <<>>
    /\ astropy = [version |-> "", ICRSCoordinates |-> <<>>,
                  AngularSeparation |-> <<>>]
    /\ index_files = <<>>

UnitIdle ==
    /\ chunk_args = <<>>
    /\ chunk_result = NotCalled
    /\ standard_lines = <<>>
    /\ standard_result = NotCalled
    /\ smooth_args = <<>>
    /\ smooth_result = NotCalled
    /\ subgrid_args = <<>>
    /\ subgrid_result = NotCalled

PipelineIdle == RebinIdle /\ SaveIdle /\ DeriveIdle /\ UnitIdle

CodecInit ==
    /\ model_name \in ModelNames
    /\ parameters_dict \in CodecRecords(model_name)
    /\ vector_result = NotCalled
    /\ dict_result = NotCalled
    /\ PipelineIdle
    /\ CallsIdle
    /\ ExtractIdle

\* The variant whose field set a record has.
VariantOf(d) ==
    IF "rho" \in DOMAIN d THEN "ref_centre_alpha_angle"
    ELSE IF "temperature" \in DOMAIN d THEN "ref_centre_alpha_angle_circ_atm"
    ELSE "ref_centre_alpha_angle_circ"

CallDictToVector ==
    /\ vector_result = NotCalled
    /\ vector_result' = parameters_dict_to_vector(parameters_dict, model_name)
    /\ UNCHANGED <<model_name, parameters_dict, dict_result>>
    /\ UNCHANGED <<callVars, extractVars, pipelineVars>>

\* The vector handed to parameters_vector_to_dict: the one just encoded, as
\* in fit_model_flux; when the encoding raised, the record's vector under
\* its own variant (a vector made before the name went wrong).
VectorArgument ==
    IF vector_result.ok THEN vector_result.val
    ELSE parameters_dict_to_vector(parameters_dict,
                                   VariantOf(parameters_dict)).val

CallVectorToDict ==
    /\ Called(vector_result)
    /\ dict_result = NotCalled
    /\ dict_result' = parameters_vector_to_dict(VectorArgument, model_name)
    /\ UNCHANGED <<model_name, parameters_dict, vector_result>>
    /\ UNCHANGED <<callVars, extractVars, pipelineVars>>

CodecNext == CallDictToVector \/ CallVectorToDict

SpecCodec == CodecInit /\ [][CodecNext]_vars

-----------------------------------------------------------------------------
(* C1: for each of the three variants and every well-formed record with    *)
(* n >= 0 slices, parameters_vector_to_dict(parameters_dict_to_vector(r))  *)
(* has exactly the fields of r, each with the same value.                  *)

C1_RoundTrip ==
    Called(dict_result) =>
        /\ dict_result.ok
        /\ DOMAIN dict_result.val = DOMAIN parameters_dict
        /\ \A f \in DOMAIN parameters_dict :
               dict_result.val[f] = parameters_dict[f]

C1_Witness ==
    /\ Called(dict_result)
    /\ dict_result.ok
    /\ model_name = "ref_centre_alpha_angle_circ_atm"
    /\ Len(parameters_dict.flux) = 2
    /\ parameters_dict.flux # parameters_dict.background
    /\ dict_result.val.flux = parameters_dict.flux

\* C1 also covers the record with no slices.
C1_WitnessEmpty ==
    /\ Called(dict_result)
    /\ dict_result.ok
    /\ parameters_dict.flux = <<>>

-----------------------------------------------------------------------------
(* C2: the vector of a record with n slices has length 2n + k, k = 8, 6, 9 *)
(* for full, circular, circular_atm; it is flux(n), background(n) and then *)
(* the scalars in the documented order; parameters_vector_to_dict reads    *)
(* every field from that same position.                                    *)

DocumentedScalars(name) ==
    IF name = "ref_centre_alpha_angle" THEN
        <<"xcen_ref", "ycen_ref", "zenith_direction", "zenith_distance",
          "alphax_ref", "alphay_ref", "beta", "rho">>
    ELSE IF name = "ref_centre_alpha_angle_circ" THEN
        <<"xcen_ref", "ycen_ref", "zenith_direction", "zenith_distance",
          "alpha_ref", "beta">>
    ELSE
        <<"temperature", "pressure", "vapour_pressure", "xcen_ref",
          "ycen_ref", "zenith_direction", "zenith_distance", "alpha_ref",
          "beta">>

DocumentedCount(name) ==
    IF name = "ref_centre_alpha_angle" THEN 8
    ELSE IF name = "ref_centre_alpha_angle_circ" THEN 6
    ELSE 9

C2_Layout ==
    Called(vector_result) =>
        LET v == vector_result.val
            n == Len(parameters_dict.flux)
            k == DocumentedCount(model_name)
            names == DocumentedScalars(model_name)
        IN  /\ vector_result.ok
            /\ Len(v) = 2 * n + k
            /\ \A i \in 1..n : /\ v[i] = parameters_dict.flux[i]
                               /\ v[n + i] = parameters_dict.background[i]
            /\ \A j \in 1..k : v[2 * n + j] = parameters_dict[names[j]]
            /\ Called(dict_result) =>
                   /\ dict_result.ok
                   /\ dict_result.val.flux = SubSeq(v, 1, n)
                   /\ dict_result.val.background = SubSeq(v, n + 1, 2 * n)
                   /\ \A j \in 1..k : dict_result.val[names[j]] = v[2 * n + j]

C2_Witness ==
    /\ Called(vector_result)
    /\ Called(dict_result)
    /\ model_name = "ref_centre_alpha_angle"
    /\ Len(parameters_dict.flux) = 2
    /\ Len(vector_result.val) = 12
    /\ parameters_dict.flux # parameters_dict.background

-----------------------------------------------------------------------------
(* Inputs in physical units: chunked data for the fit, IFU objects for the *)
(* extraction.                                                             *)

\* Three fibres, two wavelength chunks: 6 residuals, fewer than the
\* parameters of any variant.
DataTube(a) ==
    [datatube |-> <<<<a, 2>>, <<3, 4>>, <<5, 1>>>>,
     vartube |-> <<<<1, 1>>, <<1, 2>>, <<2, 1>>>>,
     xfibre |-> <<-1000, 0, 1000>>,
     yfibre |-> <<500, -500, 0>>,
     wavelength |-> <<4000, 5000>>]

\* Seven fibres, two wavelength chunks: 14 residuals, enough for every
\* variant (10, 12 or 13 parameters).
WideTube ==
    [datatube |-> <<<<1, 2>>, <<3, 4>>, <<5, 1>>, <<2, 2>>, <<4, 3>>,
                    <<1, 5>>, <<3, 1>>>>,
     vartube |-> <<<<1, 1>>, <<1, 2>>, <<2, 1>>, <<1, 1>>, <<2, 2>>,
                   <<1, 1>>, <<1, 2>>>>,
     xfibre |-> <<-1000, 0, 1000, -500, 500, 0, 1500>>,
     yfibre |-> <<500, -500, 0, 1000, -1000, 0, 500>>,
     wavelength |-> <<4000, 5000>>]

\* Three fibres whose weights 2, -1, -1 sum to 0: the normalisation of
\* line 179 divides by zero.
ZeroSumTube ==
    [datatube |-> <<<<1, 1>>, <<-1, 0>>, <<0, -1>>>>,
     vartube |-> <<<<1, 1>>, <<1, 1>>, <<2, 1>>>>,
     xfibre |-> <<-1000, 500, 1000>>,
     yfibre |-> <<500, -500, 250>>,
     wavelength |-> <<4000, 5000>>]

DataTubes == {DataTube(1), DataTube(7), WideTube, ZeroSumTube}

\* The fibre positions of a bundle of n fibres, in 1e-3 arcsec.
FibreX(n) == [f \in 1..n |-> (((f - 1) % 7) - 3) * 1600]

FibreY(n) == [f \in 1..n |-> (((f - 1) \div 7) - 2) * 1400]

FibreCount == 33

MaxPixels == 2

\* The numbers of finite fibres a pixel may have: around the threshold.
FiniteCounts == {0, 29, 30, 31, FibreCount}

\* The NaN fibres of a pixel with k finite fibres, the first or the last k.
NanFibres(k, side) ==
    IF side = "first" THEN (k + 1)..FibreCount ELSE 1..(FibreCount - k)

NanPatterns == {NanFibres(k, side) : k \in FiniteCounts,
                                     side \in {"first", "last"}}

ExtractIfus ==
    UNION {{[lambda_range |-> [p \in 1..n |-> 4998 + p],
             xpos_rel |-> FibreX(FibreCount),
             ypos_rel |-> FibreY(FibreCount),
             nan |-> nan, level |-> 2, noise |-> 1] :
                nan \in [1..n -> NanPatterns]} : n \in 1..MaxPixels}

\* A fitted record of each variant: the first guess on a data tube.
GuessRecord(variant) ==
    first_guess_parameters(DataTube(1).datatube, DataTube(1).vartube,
                           DataTube(1).xfibre, DataTube(1).yfibre,
                           DataTube(1).wavelength, variant).val

-----------------------------------------------------------------------------
(* Specification SpecExtract: extract_total_flux on one IFU *)

ExtractInit ==
    /\ model_name \in ModelNames
    /\ parameters_dict = GuessRecord(model_name)
    /\ vector_result = NotCalled
    /\ dict_result = NotCalled
    /\ PipelineIdle
    /\ CallsIdle
    /\ ifu_arg \in ExtractIfus
    /\ extract_result = NotCalled

CallExtractTotalFlux ==
    /\ extract_result = NotCalled
    /\ ifu_arg # NoIfu
    /\ extract_result' =
           extract_total_flux(ifu_arg, parameters_dict, model_name)
    /\ UNCHANGED <<codecVars, callVars, ifu_arg, pipelineVars>>

SpecExtract == ExtractInit /\ [][CallExtractTotalFlux]_vars

-----------------------------------------------------------------------------
(* C4: in extract_total_flux every wavelength slice is treated on its own: *)
(* with fewer than 31 finite fibres (30 in particular) the slice is        *)
(* (NaN, NaN) and nothing is raised; with 31 or more the fit is run on     *)
(* exactly the finite fibres; the slices after an under-constrained one    *)
(* are still processed, and flux and background have one entry per pixel.  *)

FiniteFibres(u, p) == {f \in 1..NFibre(u) : f \notin u.nan[p]}

C4_SlicePolicy ==
    Called(extract_result) =>
        /\ extract_result.ok
        /\ Len(extract_result.val.flux) = Len(ifu_arg.lambda_range)
        /\ Len(extract_result.val.background) = Len(ifu_arg.lambda_range)
        /\ \A p \in 1..Len(ifu_arg.lambda_range) :
               IF Cardinality(FiniteFibres(ifu_arg, p)) < 31
               THEN /\ extract_result.val.flux[p] = NaN
                    /\ extract_result.val.background[p] = NaN
                    /\ extract_result.val.fitted[p] = <<>>
               ELSE /\ IsFinite(extract_result.val.flux[p])
                    /\ IsFinite(extract_result.val.background[p])
                    /\ extract_result.val.fitted[p] =
                           SortedSeq(FiniteFibres(ifu_arg, p))

\* A slice with exactly 30 finite fibres gives NaN and the next slice, with
\* exactly 31 (not the first 31), is fitted.
C4_Witness ==
    /\ Called(extract_result)
    /\ Len(ifu_arg.lambda_range) = 2
    /\ Cardinality(FiniteFibres(ifu_arg, 1)) = 30
    /\ Cardinality(FiniteFibres(ifu_arg, 2)) = 31
    /\ 1 \notin FiniteFibres(ifu_arg, 2)
    /\ extract_result.val.flux[1] = NaN
    /\ IsFinite(extract_result.val.flux[2])
    /\ Len(extract_result.val.fitted[2]) = 31

-----------------------------------------------------------------------------
(* Specification SpecDispatch: every function that dispatches on the model *)
(* name, called once each with a recognised or an unrecognised name.       *)

DispatchIfus ==
    {[lambda_range |-> <<4000, 5000>>,
      xpos_rel |-> FibreX(FibreCount), ypos_rel |-> FibreY(FibreCount),
      nan |-> <<{}, nan>>, level |-> 2, noise |-> 1] :
         nan \in {NanFibres(30, "first"), NanFibres(31, "last")}}

DispatchInit ==
    /\ model_name \in AllNames
    /\ \E variant \in VariantsFor(model_name) :
           parameters_dict = GuessRecord(variant)
    /\ vector_result = NotCalled
    /\ dict_result = NotCalled
    /\ PipelineIdle
    /\ wavelength_arg = <<4000, 5000>>
    /\ array_result = NotCalled
    /\ guess_result = NotCalled
    /\ fit_result = NotCalled
    /\ ifu_arg \in DispatchIfus
    /\ extract_result = NotCalled

CallDictToArray ==
    /\ array_result = NotCalled
    /\ wavelength_arg # <<>>
    /\ array_result' =
           parameters_dict_to_array(parameters_dict, wavelength_arg,
                                    model_name)
    /\ UNCHANGED <<codecVars, extractVars, pipelineVars>>
    /\ UNCHANGED <<wavelength_arg, guess_result, fit_result>>

CallFirstGuess ==
    /\ guess_result = NotCalled
    /\ \E t \in DataTubes :
           guess_result' =
               first_guess_parameters(t.datatube, t.vartube, t.xfibre,
                                      t.yfibre, t.wavelength, model_name)
    /\ UNCHANGED <<codecVars, extractVars, pipelineVars>>
    /\ UNCHANGED <<wavelength_arg, array_result, fit_result>>

CallFitModelFlux ==
    /\ fit_result = NotCalled
    /\ \E t \in DataTubes :
           fit_result' =
               fit_model_flux(t.datatube, t.vartube, t.xfibre, t.yfibre,
                              t.wavelength, model_name)
    /\ UNCHANGED <<codecVars, extractVars, pipelineVars>>
    /\ UNCHANGED <<wavelength_arg, array_result, guess_result>>

DispatchNext ==
    \/ CallDictToVector
    \/ CallVectorToDict
    \/ CallDictToArray
    \/ CallFirstGuess
    \/ CallFitModelFlux
    \/ CallExtractTotalFlux

SpecDispatch == DispatchInit /\ [][DispatchNext]_vars

-----------------------------------------------------------------------------
(* C3: for a model name other than the three variants, each of             *)
(* parameters_dict_to_vector, parameters_vector_to_dict,                   *)
(* parameters_dict_to_array and first_guess_parameters raises KeyError and *)
(* returns nothing, so fit_model_flux gives no parameter record and        *)
(* extract_total_flux no flux array.                                       *)

RaisedKeyError(r) == Called(r) => (~r.ok /\ r.err = "KeyError" /\ r.val = <<>>)

C3_UnknownVariant ==
    model_name \notin ModelNames =>
        /\ RaisedKeyError(vector_result)
        /\ RaisedKeyError(dict_result)
        /\ RaisedKeyError(array_result)
        /\ RaisedKeyError(guess_result)
        /\ RaisedKeyError(fit_result)
        /\ RaisedKeyError(extract_result)

C3_Witness ==
    /\ model_name \notin ModelNames
    /\ Called(vector_result) /\ vector_result.err = "KeyError"
    /\ Called(dict_result) /\ dict_result.err = "KeyError"
    /\ Called(array_result) /\ array_result.err = "KeyError"
    /\ Called(guess_result) /\ guess_result.err = "KeyError"
    /\ Called(fit_result) /\ fit_result.err = "KeyError"
    /\ Called(extract_result) /\ extract_result.err = "KeyError"

\* With a recognised name the same six calls all return.
C3_WitnessKnown ==
    /\ model_name \in ModelNames
    /\ vector_result.ok /\ dict_result.ok /\ array_result.ok
    /\ guess_result.ok /\ fit_result.ok /\ extract_result.ok

-----------------------------------------------------------------------------
(* Specification SpecArray: parameters_dict_to_array on records in         *)
(* physical units and on grids that may hold the reference wavelength.     *)

GridWavelengths == {2500, 4000, 5000, 10000}

\* The grids: increasing, of 1..MaxSlices wavelengths.
WavelengthGrids ==
    {SortedSeq(S) : S \in {T \in SUBSET GridWavelengths :
                               Cardinality(T) \in 1..MaxSlices}}

Centres == {<<-500, 250>>, <<0, 0>>}

Directions == {1, 12}

Distances == {0, 1, 3}

AlphaPairs == {<<800, 1500>>, <<1000, 1000>>}

Rhos == {0, 300}

Atmospheres == {<<7, 600, 8>>, <<20, 760, 0>>, <<-10, 500, 30>>}

\* A per-slice column of the record for a grid of n slices: absent (no
\* entry), one entry per slice, or one entry too many.
Columns(n, base) == {[i \in 1..len |-> base + i] : len \in {0, n, n + 1}}

ArrayRecords(variant, n) ==
    IF variant = "ref_centre_alpha_angle" THEN
        {[flux |-> flux, background |-> background,
          xcen_ref |-> c[1], ycen_ref |-> c[2],
          zenith_direction |-> zdir, zenith_distance |-> zd,
          alphax_ref |-> a[1], alphay_ref |-> a[2],
          beta |-> 4000, rho |-> rho] :
             flux \in Columns(n, 100), background \in Columns(n, 10),
             c \in Centres, zdir \in Directions, zd \in Distances,
             a \in AlphaPairs, rho \in Rhos}
    ELSE IF variant = "ref_centre_alpha_angle_circ" THEN
        {[flux |-> flux, background |-> background,
          xcen_ref |-> c[1], ycen_ref |-> c[2],
          zenith_direction |-> zdir, zenith_distance |-> zd,
          alpha_ref |-> a[1], beta |-> 4000] :
             flux \in Columns(n, 100), background \in Columns(n, 10),
             c \in Centres, zdir \in Directions, zd \in Distances,
             a \in AlphaPairs}
    ELSE
        {[flux |-> flux, background |-> background,
          temperature |-> atm[1], pressure |-> atm[2],
          vapour_pressure |-> atm[3],
          xcen_ref |-> c[1], ycen_ref |-> c[2],
          zenith_direction |-> zdir, zenith_distance |-> zd,
          alpha_ref |-> a[1], beta |-> 4000] :
             flux \in Columns(n, 100), background \in Columns(n, 10),
             c \in Centres, zdir \in Directions, zd \in Distances,
             a \in AlphaPairs, atm \in Atmospheres}

ArrayInit ==
    /\ model_name \in ModelNames
    /\ wavelength_arg \in WavelengthGrids
    /\ parameters_dict \in ArrayRecords(model_name, Len(wavelength_arg))
    /\ vector_result = NotCalled
    /\ dict_result = NotCalled
    /\ PipelineIdle
    /\ array_result = NotCalled
    /\ guess_result = NotCalled
    /\ fit_result = NotCalled
    /\ ExtractIdle

SpecArray == ArrayInit /\ [][CallDictToArray]_vars

-----------------------------------------------------------------------------
(* C8: the reference wavelength is a fixed point of the chromatic laws:    *)
(* dar(REFERENCE_WAVELENGTH, zd, ...) = 0 for every zenith distance and    *)
(* every temperature, pressure and vapour pressure, given or defaulted,    *)
(* and alpha(REFERENCE_WAVELENGTH, a) = a; so for every variant the slice  *)
(* of parameters_dict_to_array at the reference wavelength has xcen =      *)
(* xcen_ref, ycen = ycen_ref and alphax / alphay equal to the reference    *)
(* alpha values.                                                           *)

\* The atmosphere dar is called with for the record in hand.
AtmosphereOf(d) ==
    IF "temperature" \in DOMAIN d
    THEN <<Some(d.temperature), Some(d.pressure), Some(d.vapour_pressure)>>
    ELSE <<None, None, None>>

ReferenceAlphas(d) ==
    IF "alpha_ref" \in DOMAIN d THEN <<d.alpha_ref, d.alpha_ref>>
    ELSE <<d.alphax_ref, d.alphay_ref>>

C8_ReferenceFixedPoint ==
    /\ dar(REFERENCE_WAVELENGTH, parameters_dict.zenith_distance,
           AtmosphereOf(parameters_dict)[1], AtmosphereOf(parameters_dict)[2],
           AtmosphereOf(parameters_dict)[3]) = 0
    /\ alpha(REFERENCE_WAVELENGTH, ReferenceAlphas(parameters_dict)[1])
           = ReferenceAlphas(parameters_dict)[1]
    /\ Called(array_result) =>
           /\ array_result.ok
           /\ \A i \in 1..Len(wavelength_arg) :
                  wavelength_arg[i] = REFERENCE_WAVELENGTH =>
                      /\ array_result.val[i].xcen = parameters_dict.xcen_ref
                      /\ array_result.val[i].ycen = parameters_dict.ycen_ref
                      /\ array_result.val[i].alphax =
                             ReferenceAlphas(parameters_dict)[1]
                      /\ array_result.val[i].alphay =
                             ReferenceAlphas(parameters_dict)[2]

\* The atmospheric variant at a large zenith distance: the slice at the
\* reference wavelength sits at the reference centre while its neighbour is
\* displaced and has another alpha.
C8_Witness ==
    /\ Called(array_result)
    /\ model_name = "ref_centre_alpha_angle_circ_atm"
    /\ parameters_dict.zenith_distance = 3
    /\ parameters_dict.temperature = 20
    /\ wavelength_arg = <<4000, 5000>>
    /\ array_result.val[2].xcen = parameters_dict.xcen_ref
    /\ array_result.val[1].xcen # parameters_dict.xcen_ref
    /\ array_result.val[2].alphax = parameters_dict.alpha_ref
    /\ array_result.val[1].alphax # parameters_dict.alpha_ref

-----------------------------------------------------------------------------
(* C13: parameters_dict_to_array returns one record per entry of the       *)
(* wavelength grid in which, for every variant, beta is copied from the    *)
(* record; rho is copied for the full variant and is 0 for both circular   *)
(* variants; alphax and alphay are both derived from the single alpha_ref  *)
(* for the circular variants; and flux (respectively background) equals    *)
(* the record's flux (background) array when that array has exactly one    *)
(* entry per slice and is 0 in every slice otherwise.                      *)

C13_ArrayPerSlice ==
    Called(array_result) =>
        /\ array_result.ok
        /\ Len(array_result.val) = Len(wavelength_arg)
        /\ \A i \in 1..Len(wavelength_arg) :
               LET slice == array_result.val[i]
                   n == Len(wavelength_arg)
               IN  /\ slice.beta = parameters_dict.beta
                   /\ slice.rho = IF model_name = "ref_centre_alpha_angle"
                                  THEN parameters_dict.rho ELSE 0
                   /\ model_name # "ref_centre_alpha_angle" =>
                          /\ slice.alphax =
                                 alpha(wavelength_arg[i],
                                       parameters_dict.alpha_ref)
                          /\ slice.alphay = slice.alphax
                   /\ slice.flux =
                          IF Len(parameters_dict.flux) = n
                          THEN parameters_dict.flux[i] ELSE 0
                   /\ slice.background =
                          IF Len(parameters_dict.background) = n
                          THEN parameters_dict.background[i] ELSE 0

\* A circular record on a grid of two slices whose flux array has one entry
\* too many and whose background array has one entry per slice: the flux
\* column is 0 and the background column is the record's.
C13_Witness ==
    /\ Called(array_result)
    /\ model_name = "ref_centre_alpha_angle_circ"
    /\ Len(wavelength_arg) = 2
    /\ Len(parameters_dict.flux) = 3
    /\ Len(parameters_dict.background) = 2
    /\ array_result.val[2].flux = 0
    /\ array_result.val[2].background = parameters_dict.background[2]
    /\ array_result.val[2].background # 0
    /\ array_result.val[1].alphax # array_result.val[2].alphax

-----------------------------------------------------------------------------
(* Specification SpecRebin: rebin_flux and take_ratio on small grids.      *)
(* Grids are strictly increasing; the source flux is finite and non-zero   *)
(* and has one value per source wavelength.                                *)

MaxSource == 4

MaxTarget == 3

SourceWavelengths == {10, 20, 30, 40, 60}

TargetWavelengths == {5, 15, 35, 70}

FluxValues == {1, 2}

Factors == {2, 3}

\* The strictly increasing sequences over S of the lengths lo .. hi.
Increasing(S, lo, hi) ==
    UNION {{g \in [1..n -> S] : \A i \in 1..(n - 1) : g[i] < g[i + 1]} :
              n \in lo..hi}

\* k * flux, the standard spectrum of a star k times as bright.
Scaled(flux, k) == [i \in 1..Len(flux) |-> Fin(k * flux[i][1])]

RebinInputs ==
    {[target |-> t, source |-> s, flux |-> [i \in 1..Len(s) |-> Fin(v + i)]] :
        s \in Increasing(SourceWavelengths, 3, MaxSource),
        t \in Increasing(TargetWavelengths, 1, MaxTarget)
               \cup Increasing(SourceWavelengths, 3, MaxSource),
        v \in FluxValues}

RebinInit ==
    /\ model_name = "ref_centre_alpha_angle_circ"
    /\ parameters_dict = GuessRecord(model_name)
    /\ vector_result = NotCalled
    /\ dict_result = NotCalled
    /\ CallsIdle
    /\ ExtractIdle
    /\ SaveIdle
    /\ DeriveIdle
    /\ UnitIdle
    /\ rebin_args \in RebinInputs
    /\ rebin_result = NotCalled
    /\ \E k \in Factors, smooth \in BOOLEAN :
           ratio_args =
               [standard_flux |->
                    IF rebin_args.target = rebin_args.source
                    THEN Scaled(rebin_args.flux, k)
                    ELSE [i \in 1..Len(rebin_args.target) |-> Fin(k)],
                smooth |-> smooth, k |-> k]
    /\ ratio_result = NotCalled

CallRebinFlux ==
    /\ rebin_result = NotCalled
    /\ rebin_args # NoRebin
    /\ rebin_result' =
           rebin_flux(rebin_args.target, rebin_args.source, rebin_args.flux)
    /\ UNCHANGED <<codecVars, callVars, extractVars, saveVars, deriveVars,
                 unitVars>>
    /\ UNCHANGED <<rebin_args, ratio_args, ratio_result>>

CallTakeRatio ==
    /\ ratio_result = NotCalled
    /\ ratio_args # NoRatio
    /\ ratio_result' =
           take_ratio(ratio_args.standard_flux, rebin_args.target,
                      rebin_args.flux, rebin_args.source, ratio_args.smooth)
    /\ UNCHANGED <<codecVars, callVars, extractVars, saveVars, deriveVars,
                 unitVars>>
    /\ UNCHANGED <<rebin_args, rebin_result, ratio_args>>

RebinNext == CallRebinFlux \/ CallTakeRatio

SpecRebin == RebinInit /\ [][RebinNext]_vars

\* The target bins both of whose edges lie within the source bin limits.
CoveredBins(a) ==
    {i \in 1..Len(a.target) :
        /\ IsFinite(OrigBinIndex(a.target, a.source)[i])
        /\ IsFinite(OrigBinIndex(a.target, a.source)[i + 1])}

\* Length (doubled) of the part of source bin j that lies in [lo, hi].
Overlap(a, j, lo, hi) ==
    Max(0, Min(hi, OriginalBinLimits(a.source)[j + 1])
           - Max(lo, OriginalBinLimits(a.source)[j]))

\* Flux of the source (density 1e-3 x doubled width) between lo and hi.
SourceFluxBetween(a, lo, hi) ==
    SumSeq([j \in 1..(Len(a.source) - 2) |->
               1000 * a.flux[j + 1][1] * Overlap(a, j, lo, hi)])

\* C5: rebin_flux conserves total flux: over the target bins fully covered
\* by the source grid, the sum of rebinned density x target bin width
\* equals the sum of source density x source bin width (up to the rounding
\* of the densities).
C5_FluxConserved ==
    Called(rebin_result) =>
        /\ rebin_result.ok
        /\ \A i \in CoveredBins(rebin_args) :
               IsFinite(rebin_result.val[i])
        /\ LET limits == BinLimits(rebin_args.target)
               rebinned ==
                   SumSeq([i \in 1..Len(rebin_args.target) |->
                              IF i \in CoveredBins(rebin_args)
                              THEN rebin_result.val[i][1]
                                   * (limits[i + 1] - limits[i])
                              ELSE 0])
               source ==
                   SumSeq([i \in 1..Len(rebin_args.target) |->
                              IF i \in CoveredBins(rebin_args)
                              THEN SourceFluxBetween(rebin_args, limits[i],
                                                     limits[i + 1])
                              ELSE 0])
           IN  Abs(rebinned - source)
                   <= limits[Len(limits)] - limits[1]

\* C6: every target bin whose lower edge falls outside the source bin
\* limits (non-finite source bin index) has the value 0 in the array that
\* rebin_flux returns.
C6_OutsideIsZero ==
    Called(rebin_result) =>
        /\ rebin_result.ok
        /\ \A i \in 1..Len(rebin_args.target) :
               ~IsFinite(OrigBinIndex(rebin_args.target,
                                      rebin_args.source)[i])
                   => rebin_result.val[i] = Fin(0)

\* C7: take_ratio with smooth=False on one grid, the standard flux being k
\* times the observed flux, returns one entry per observed wavelength,
\* each equal to k.
C7_SameGridRatio ==
    ( /\ Called(ratio_result)
      /\ ~ratio_args.smooth
      /\ rebin_args.target = rebin_args.source
      /\ ratio_args.standard_flux = Scaled(rebin_args.flux, ratio_args.k) )
    =>  /\ ratio_result.ok
        /\ Len(ratio_result.val) = Len(rebin_args.source)
        /\ \A i \in 1..Len(ratio_result.val) :
               ratio_result.val[i] = Fin(1000 * ratio_args.k)

\* What the code does instead: with the 1-D flux that take_ratio passes,
\* every call of rebin_flux ends in an exception, and take_ratio with it.
RebinAlwaysRaises ==
    /\ Called(rebin_result) =>
           /\ ~rebin_result.ok
           /\ rebin_result.err \in {"IndexError", "ValueError"}
    /\ Called(ratio_result) =>
           /\ ~ratio_result.ok
           /\ ratio_result.err \in {"IndexError", "ValueError"}

-----------------------------------------------------------------------------
(* Specification SpecSave: any sequence of save_extracted_flux and         *)
(* save_transfer_function on one file.  The file comes from the pipeline   *)
(* upstream and holds no FLUX_CALIBRATION HDU or one, left by an earlier   *)
(* run or by other code (then possibly with another number of rows).       *)

MaxRow == 2

\* The 1-D arrays saved: one value stands for one array.
Rows == 1..MaxRow

Stars == {"EG21", "LTT1020"}

PlainHDU(name) == [name |-> name, header |-> "", data |-> <<>>]

StoredRecords ==
    {[name |-> HDU_NAME, header |-> "EG21", data |-> d] :
        d \in {<<1, 2>>, <<2, 1, 2>>, <<1>>, <<1, 2, 1, 2>>}}

InputFiles ==
    {<<PlainHDU("PRIMARY"), PlainHDU("VARIANCE"), PlainHDU("FIBRES_IFU")>>}
    \cup {<<PlainHDU("PRIMARY"), r, PlainHDU("FIBRES_IFU")>> :
             r \in StoredRecords}
    \cup {<<PlainHDU("PRIMARY"), PlainHDU("FIBRES_IFU"), r>> :
             r \in StoredRecords}

SaveInit ==
    /\ model_name = "ref_centre_alpha_angle_circ"
    /\ parameters_dict = GuessRecord(model_name)
    /\ vector_result = NotCalled
    /\ dict_result = NotCalled
    /\ CallsIdle
    /\ ExtractIdle
    /\ RebinIdle
    /\ DeriveIdle
    /\ UnitIdle
    /\ hdulist \in InputFiles
    /\ save_call = NoSave
    /\ save_result = NotCalled
    /\ first_op = "none"
    /\ latest_tf = None

SaveExtractedFlux ==
    /\ hdulist # <<>>
    /\ \E observed_flux \in Rows, observed_background \in Rows,
          star \in Stars :
           LET saved == save_extracted_flux(hdulist, observed_flux,
                                            observed_background, star)
           IN  /\ hdulist' = saved.val
               /\ save_result' = Ok(<<>>)
               /\ save_call' =
                      [op |-> "save_extracted_flux",
                       flux |-> <<observed_flux>>,
                       background |-> <<observed_background>>,
                       transfer_function |-> <<>>, before |-> hdulist]
    /\ first_op' = IF first_op = "none" THEN "save_extracted_flux"
                   ELSE first_op
    /\ UNCHANGED latest_tf
    /\ UNCHANGED <<codecVars, callVars, extractVars, rebinVars, deriveVars,
                 unitVars>>

SaveTransferFunction ==
    /\ hdulist # <<>>
    /\ \E transfer_function \in Rows :
           LET saved == save_transfer_function(hdulist, transfer_function)
           IN  /\ hdulist' = IF saved.ok THEN saved.val ELSE hdulist
               /\ save_result' = IF saved.ok THEN Ok(<<>>) ELSE saved
               /\ save_call' =
                      [op |-> "save_transfer_function",
                       flux |-> <<>>, background |-> <<>>,
                       transfer_function |-> <<transfer_function>>,
                       before |-> hdulist]
               /\ latest_tf' = Some(transfer_function)
    /\ first_op' = IF first_op = "none" THEN "save_transfer_function"
                   ELSE first_op
    /\ UNCHANGED <<codecVars, callVars, extractVars, rebinVars, deriveVars,
                 unitVars>>

SaveNext == SaveExtractedFlux \/ SaveTransferFunction

SpecSave == SaveInit /\ [][SaveNext]_vars

\* The data of the FLUX_CALIBRATION HDUs of a file, in file order.
StoredData(hdus) ==
    LET places == SortedSeq({i \in 1..Len(hdus) : hdus[i].name = HDU_NAME})
    IN  [k \in 1..Len(places) |-> hdus[places[k]].data]

\* C9: save_extracted_flux leaves exactly one FLUX_CALIBRATION record,
\* holding the new flux and background rows; save_transfer_function appends
\* the transfer function as a third row to a two-row record and overwrites
\* the third row of a three-row record, the first two rows unchanged; so
\* after any sequence of the two that starts with save_extracted_flux the
\* record has 2 or 3 rows and its third row, when present, is the transfer
\* function saved last.
C9_StoredResultPolicy ==
    LET now == StoredData(hdulist)
        before == StoredData(save_call.before)
    IN  /\ save_call.op = "save_extracted_flux" =>
               now = <<save_call.flux \o save_call.background>>
        /\ ( /\ save_call.op = "save_transfer_function"
             /\ Len(before) = 1 /\ Len(before[1]) = 2 ) =>
               now = <<before[1] \o save_call.transfer_function>>
        /\ ( /\ save_call.op = "save_transfer_function"
             /\ Len(before) = 1 /\ Len(before[1]) = 3 ) =>
               now = <<SubSeq(before[1], 1, 2)
                       \o save_call.transfer_function>>
        /\ first_op = "save_extracted_flux" =>
               /\ Len(now) = 1
               /\ Len(now[1]) \in {2, 3}
               /\ Len(now[1]) = 3 => <<now[1][3]>> = latest_tf

\* A transfer function has been overwritten in a file first written by
\* save_extracted_flux: the third row changed, the first two did not.
C9_Witness ==
    /\ first_op = "save_extracted_flux"
    /\ save_call.op = "save_transfer_function"
    /\ Len(StoredData(save_call.before)) = 1
    /\ Len(StoredData(save_call.before)[1]) = 3
    /\ StoredData(save_call.before)[1][3] # save_call.transfer_function[1]
    /\ StoredData(hdulist)[1][3] = save_call.transfer_function[1]
    /\ Len(StoredData(hdulist)[1]) = 3

-----------------------------------------------------------------------------
(* Specification SpecDerive: derive_transfer_function, lines 410-442, on a *)
(* batch of files, one action per statement.  take_ratio and the           *)
(* save_transfer_function that follows it are one action: the loop goes on *)
(* to the next file only when both have returned.                          *)

MaxFiles == 2

MAX_SEP_ARCSEC == 30

\* Lines 41-42.
STANDARD_CATALOGUES ==
    <<<<".", "standards", "ESO", "ESOstandards.dat">>,
      <<".", "standards", "Bessell", "Bessellstandards.dat">>>>

\* The index of the ESO standards: file, name, right ascension (h m s)
\* and declination (d m s) of each star.
ESOstandards ==
    <<<<<<"F", "E", "I", "G", "E", "1", "1", "0", ".", "d", "a", "t">>,
       <<"F", "E", "I", "G", "E", "1", "1", "0">>, <<"2", "3">>,
       <<"1", "9">>, <<"5", "8">>, <<"-", "0", "5">>, <<"0", "9">>,
       <<"5", "6">>>>,
      <<<<"E", "G", "2", "1", ".", "d", "a", "t">>, <<"E", "G", "2", "1">>,
       <<"0", "3">>, <<"1", "0">>, <<"3", "1">>, <<"-", "6", "8">>,
       <<"3", "6">>, <<"0", "3">>>>>>

Bessellstandards ==
    <<<<<<"L", "T", "T", "1", "0", "2", "0", ".", "d", "a", "t">>,
       <<"L", "T", "T", "1", "0", "2", "0">>, <<"0", "1">>, <<"5", "4">>,
       <<"5", "0">>, <<"-", "2", "7">>, <<"2", "8">>, <<"3", "6">>>>,
      <<<<"L", "T", "T", "3", "8", "6", "4", ".", "d", "a", "t">>,
       <<"L", "T", "T", "3", "8", "6", "4">>, <<"1", "0">>, <<"3", "2">>,
       <<"1", "3">>, <<"-", "3", "5">>, <<"3", "7">>, <<"4", "2">>>>>>

\* The index files as installed; with a Bessell index of one star only;
\* with an ESO index that lacks the last column.
IndexFiles ==
    [standard |-> (STANDARD_CATALOGUES[1] :> ESOstandards)
                  @@ (STANDARD_CATALOGUES[2] :> Bessellstandards),
     one_star |-> (STANDARD_CATALOGUES[1] :> ESOstandards)
                  @@ (STANDARD_CATALOGUES[2] :>
                          SubSeq(Bessellstandards, 1, 1)),
     short |-> (STANDARD_CATALOGUES[1] :>
                    [k \in 1..Len(ESOstandards) |->
                        SubSeq(ESOstandards[k], 1, 7)])
               @@ (STANDARD_CATALOGUES[2] :> Bessellstandards)]

\* What ICRSCoordinates makes of the strings of the stars above: 15 arcsec
\* per second of time, and a declination of the sign of its degrees.
StarPositions ==
    (<<<<"2", "3", "h", "1", "9", "m", "5", "8", "s">>,
        <<"-", "0", "5", "d", "0", "9", "m", "5", "6", "s">>>>
       :> [ra |-> 1259970, dec |-> -18596])
    @@ (<<<<"0", "3", "h", "1", "0", "m", "3", "1", "s">>,
        <<"-", "6", "8", "d", "3", "6", "m", "0", "3", "s">>>>
       :> [ra |-> 171465, dec |-> -246963])
    @@ (<<<<"0", "1", "h", "5", "4", "m", "5", "0", "s">>,
        <<"-", "2", "7", "d", "2", "8", "m", "3", "6", "s">>>>
       :> [ra |-> 103350, dec |-> -98916])
    @@ (<<<<"1", "0", "h", "3", "2", "m", "1", "3", "s">>,
        <<"-", "3", "5", "d", "3", "7", "m", "4", "2", "s">>>>
       :> [ra |-> 568995, dec |-> -128262])

\* The great-circle distance (Vincenty's formula on the unit sphere) of
\* the bundle centres of FibreTables from the stars of StarPositions, with
\* the four angles read as lon1, lat1, lon2, lat2.
LonFirstSeparations ==
    (<<<<100010, 1>>, <<20000, 1>>, 1259970, -18596>> :> 141215734)
    @@ (<<<<100010, 1>>, <<20000, 1>>, 171465, -246963>> :> 271574356)
    @@ (<<<<100010, 1>>, <<20000, 1>>, 103350, -98916>> :> 118959797)
    @@ (<<<<100010, 1>>, <<20000, 1>>, 568995, -128262>> :> 451459979)
    @@ (<<<<342919, 2>>, <<-493915, 2>>, 1259970, -18596>> :> 265816353)
    @@ (<<<<342919, 2>>, <<-493915, 2>>, 171465, -246963>> :> 5855)
    @@ (<<<<342919, 2>>, <<-493915, 2>>, 103350, -98916>> :> 153446079)
    @@ (<<<<342919, 2>>, <<-493915, 2>>, 568995, -128262>> :> 230289973)
    @@ (<<<<171465, 1>>, <<-246963, 1>>, 1259970, -18596>> :> 265820765)
    @@ (<<<<171465, 1>>, <<-246963, 1>>, 171465, -246963>> :> 0)
    @@ (<<<<171465, 1>>, <<-246963, 1>>, 103350, -98916>> :> 153451911)
    @@ (<<<<171465, 1>>, <<-246963, 1>>, 568995, -128262>> :> 230285355)
    @@ (<<<<100000, 1>>, <<20000, 1>>, 1259970, -18596>> :> 141206129)
    @@ (<<<<100000, 1>>, <<20000, 1>>, 171465, -246963>> :> 271575630)
    @@ (<<<<100000, 1>>, <<20000, 1>>, 103350, -98916>> :> 118960060)
    @@ (<<<<100000, 1>>, <<20000, 1>>, 568995, -128262>> :> 451467552)
    @@ (<<<<103350, 1>>, <<-98896, 1>>, 1259970, -18596>> :> 154909464)
    @@ (<<<<103350, 1>>, <<-98896, 1>>, 171465, -246963>> :> 153471603)
    @@ (<<<<103350, 1>>, <<-98896, 1>>, 103350, -98916>> :> 20000)
    @@ (<<<<103350, 1>>, <<-98896, 1>>, 568995, -128262>> :> 363114410)
    @@ (<<<<171465, 1>>, <<-246913, 1>>, 1259970, -18596>> :> 265796638)
    @@ (<<<<171465, 1>>, <<-246913, 1>>, 171465, -246963>> :> 50000)
    @@ (<<<<171465, 1>>, <<-246913, 1>>, 103350, -98916>> :> 153406648)
    @@ (<<<<171465, 1>>, <<-246913, 1>>, 568995, -128262>> :> 230311880)
    @@ (<<<<171505, 1>>, <<-246963, 1>>, 1259970, -18596>> :> 265833549)
    @@ (<<<<171505, 1>>, <<-246963, 1>>, 171465, -246963>> :> 14595)
    @@ (<<<<171505, 1>>, <<-246963, 1>>, 103350, -98916>> :> 153458112)
    @@ (<<<<171505, 1>>, <<-246963, 1>>, 568995, -128262>> :> 230272982)
    @@ (<<<<103350, 1>>, <<-98916, 1>>, 1259970, -18596>> :> 154917630)
    @@ (<<<<103350, 1>>, <<-98916, 1>>, 171465, -246963>> :> 153451911)
    @@ (<<<<103350, 1>>, <<-98916, 1>>, 103350, -98916>> :> 0)
    @@ (<<<<103350, 1>>, <<-98916, 1>>, 568995, -128262>> :> 363099044)

\* The great-circle distance (Vincenty's formula on the unit sphere) of
\* the bundle centres of FibreTables from the stars of StarPositions, with
\* the four angles read as lat1, lon1, lat2, lon2.
LatFirstSeparations ==
    (<<<<100010, 1>>, <<20000, 1>>, 1259970, -18596>> :> 141080618)
    @@ (<<<<100010, 1>>, <<20000, 1>>, 171465, -246963>> :> 214298357)
    @@ (<<<<100010, 1>>, <<20000, 1>>, 103350, -98916>> :> 104475543)
    @@ (<<<<100010, 1>>, <<20000, 1>>, 568995, -128262>> :> 418759099)
    @@ (<<<<342919, 2>>, <<-493915, 2>>, 1259970, -18596>> :> 289092418)
    @@ (<<<<342919, 2>>, <<-493915, 2>>, 171465, -246963>> :> 6632)
    @@ (<<<<342919, 2>>, <<-493915, 2>>, 103350, -98916>> :> 132678893)
    @@ (<<<<342919, 2>>, <<-493915, 2>>, 568995, -128262>> :> 375763299)
    @@ (<<<<171465, 1>>, <<-246963, 1>>, 1259970, -18596>> :> 289098199)
    @@ (<<<<171465, 1>>, <<-246963, 1>>, 171465, -246963>> :> 0)
    @@ (<<<<171465, 1>>, <<-246963, 1>>, 103350, -98916>> :> 132683965)
    @@ (<<<<171465, 1>>, <<-246963, 1>>, 568995, -128262>> :> 375756673)
    @@ (<<<<100000, 1>>, <<20000, 1>>, 1259970, -18596>> :> 141071048)
    @@ (<<<<100000, 1>>, <<20000, 1>>, 171465, -246963>> :> 214304946)
    @@ (<<<<100000, 1>>, <<20000, 1>>, 103350, -98916>> :> 104477239)
    @@ (<<<<100000, 1>>, <<20000, 1>>, 568995, -128262>> :> 418766418)
    @@ (<<<<103350, 1>>, <<-98896, 1>>, 1259970, -18596>> :> 159502025)
    @@ (<<<<103350, 1>>, <<-98896, 1>>, 171465, -246963>> :> 132696927)
    @@ (<<<<103350, 1>>, <<-98896, 1>>, 103350, -98916>> :> 17542)
    @@ (<<<<103350, 1>>, <<-98896, 1>>, 568995, -128262>> :> 463459109)
    @@ (<<<<171465, 1>>, <<-246913, 1>>, 1259970, -18596>> :> 289068090)
    @@ (<<<<171465, 1>>, <<-246913, 1>>, 171465, -246963>> :> 33696)
    @@ (<<<<171465, 1>>, <<-246913, 1>>, 103350, -98916>> :> 132651560)
    @@ (<<<<171465, 1>>, <<-246913, 1>>, 568995, -128262>> :> 375774230)
    @@ (<<<<171505, 1>>, <<-246963, 1>>, 1259970, -18596>> :> 289116156)
    @@ (<<<<171505, 1>>, <<-246963, 1>>, 171465, -246963>> :> 40000)
    @@ (<<<<171505, 1>>, <<-246963, 1>>, 103350, -98916>> :> 132694933)
    @@ (<<<<171505, 1>>, <<-246963, 1>>, 568995, -128262>> :> 375722533)
    @@ (<<<<103350, 1>>, <<-98916, 1>>, 1259970, -18596>> :> 159511413)
    @@ (<<<<103350, 1>>, <<-98916, 1>>, 171465, -246963>> :> 132683965)
    @@ (<<<<103350, 1>>, <<-98916, 1>>, 103350, -98916>> :> 0)
    @@ (<<<<103350, 1>>, <<-98916, 1>>, 568995, -128262>> :> 463462067)

\* An installed astropy: its version and the order in which its
\* AngularSeparation reads the four angles, which differs between releases.
Astropy(version, separations) ==
    [version |-> version, ICRSCoordinates |-> StarPositions,
     AngularSeparation |-> separations]

\* The library and the index files derive_transfer_function may find.
DeriveEnvironments ==
    {[astropy |-> Astropy("0.2.4", separations),
      index_files |-> IndexFiles.standard] :
         separations \in {LonFirstSeparations, LatFirstSeparations}}
    \cup {[astropy |-> Astropy("0.2.0", LonFirstSeparations),
           index_files |-> IndexFiles.one_star],
          [astropy |-> Astropy("0.2.4", LonFirstSeparations),
           index_files |-> IndexFiles.short]}

\* A line that starts with a word that is no number and no '#'.
TextLine == [kind |-> "text", wavelength |-> 0, flux |-> 0]

\* A line that starts with '#'.
CommentLine == [kind |-> "comment", wavelength |-> 0, flux |-> 0]

BlankLine == [kind |-> "blank", wavelength |-> 0, flux |-> 0]

NumberLine(w, f) == [kind |-> "number", wavelength |-> w, flux |-> f]

\* The spectrum file of a standard star: two header lines, then the table.
StandardFile(path) ==
    <<TextLine, TextLine>>
    \o [k \in 1..4 |->
           NumberLine(2000 + 1000 * k,
                      IF path[Len(path)] = ESOstandards[2][1] THEN 4 + k
                      ELSE 9 - k)]

Fibre(probenum, probename, ra, dec) ==
    [PROBENUM |-> probenum, PROBENAME |-> probename,
     FIB_MRA |-> ra, FIB_MDEC |-> dec]

\* FIBRES_IFU tables, positions in arcsec.  EG21: the two fibres of probe 2
\* are around EG21, 68 degrees south; LTT1020: probe 2 is 20 arcsec north
\* of LTT1020; none: a sky bundle is on EG21 and probe 2 is 50 arcsec north
\* of it; offset: the only probe is 40 arcsec of right ascension east of
\* EG21, which is 15 arcsec on the sky at that declination; sky: sky
\* bundles only, on two stars.
FibreTables ==
    [EG21 |-> <<Fibre(1, <<"P", "1">>, 100000, 20000),
                Fibre(2, <<"P", "2">>, 171457, -246959),
                Fibre(3, <<"S", "K", "Y">>, 171465, -246963),
                Fibre(2, <<"P", "2">>, 171462, -246956),
                Fibre(1, <<"P", "1">>, 100020, 20000)>>,
     LTT1020 |-> <<Fibre(1, <<"P", "1">>, 100000, 20000),
                   Fibre(2, <<"P", "2">>, 103350, -98896)>>,
     none |-> <<Fibre(1, <<"P", "1">>, 100000, 20000),
                Fibre(3, <<"S", "K", "Y", "3">>, 171465, -246963),
                Fibre(2, <<"P", "2">>, 171465, -246913)>>,
     offset |-> <<Fibre(2, <<"P", "2">>, 171505, -246963)>>,
     sky |-> <<Fibre(1, <<"S", "K", "Y", "1">>, 171465, -246963),
               Fibre(2, <<"S", "K", "Y", "2">>, 103350, -98916)>>]

\* IFU(path, probenum): the spectra of one probe, one pixel of which has
\* only 30 finite fibres.
DeriveIfu(n_pixel, probenum) ==
    [lambda_range |-> [p \in 1..n_pixel |-> 3650 + 10 * p],
     xpos_rel |-> FibreX(FibreCount),
     ypos_rel |-> FibreY(FibreCount),
     nan |-> [p \in 1..n_pixel |->
                 IF p = 30 THEN NanFibres(30, "first") ELSE {}],
     level |-> probenum, noise |-> 1]

DeriveFile(table, n_pixel, stored) ==
    [fibre_table |-> FibreTables[table],
     naxis1 |-> n_pixel,
     hdulist |-> <<PlainHDU("PRIMARY"), PlainHDU("FIBRES_IFU")>> \o stored]

\* Files of a night: the star in probe 2; the star east of probe 2; no
\* star in any probe, two chunks, a record left by an earlier run; another
\* star, too few pixels to chunk; sky bundles only.
DeriveFiles ==
    {DeriveFile("EG21", 100, <<>>),
     DeriveFile("offset", 100, <<>>),
     DeriveFile("none", 199,
                <<[name |-> HDU_NAME, header |-> Bessellstandards[1][2],
                   data |-> <<<<>>, <<>>, <<>>>>]>>),
     DeriveFile("LTT1020", 60, <<>>),
     DeriveFile("sky", 60, <<>>)}

Batches == UNION {[1..n -> DeriveFiles] : n \in 0..MaxFiles}

DeriveInit ==
    /\ model_name \in ModelNames \cup {"moffat"}
    /\ parameters_dict = GuessRecord("ref_centre_alpha_angle_circ")
    /\ vector_result = NotCalled
    /\ dict_result = NotCalled
    /\ CallsIdle
    /\ ExtractIdle
    /\ RebinIdle
    /\ SaveIdle
    /\ UnitIdle
    /\ derive_pc = "match"
    /\ derive_files \in Batches
    /\ derive_locals = NoLocals
    /\ derive_trace = <<>>
    /\ \E environment \in DeriveEnvironments :
           /\ astropy = environment.astropy
           /\ index_files = environment.index_files

DeriveUnchanged ==
    UNCHANGED <<codecVars, callVars, extractVars, rebinVars, saveVars,
                 unitVars, astropy, index_files>>

\* An exception leaves derive_transfer_function: nothing catches it.
DeriveRaise(exception) ==
    /\ derive_pc' = "raised"
    /\ derive_locals' = [derive_locals EXCEPT !.raised = Some(exception)]

\* IFU(path, star_match['probenum'], flag_name=False) for file i.
DeriveIfuOf(i) ==
    DeriveIfu(derive_files[i].naxis1, derive_locals.star_match[1].probenum)

\* lines 415-418
DeriveMatchStandardStar ==
    /\ derive_pc = "match"
    /\ IF derive_files = <<>>
       THEN DeriveRaise(RaiseAt("IndexError", 416))
       ELSE \E star_match \in
                   {match_standard_star(derive_files[1].fibre_table,
                                        MAX_SEP_ARCSEC, STANDARD_CATALOGUES)} :
                IF ~star_match.ok THEN DeriveRaise(star_match)
                ELSE IF star_match.val = None
                THEN DeriveRaise(RaiseAt("ValueError", 418))
                ELSE /\ derive_pc' = "read_standard_data"
                     /\ derive_locals' =
                            [derive_locals EXCEPT
                                !.star_match = star_match.val]
    /\ UNCHANGED <<derive_files, derive_trace>>
    /\ DeriveUnchanged

\* line 419
DeriveReadStandardData ==
    /\ derive_pc = "read_standard_data"
    /\ LET standard_data ==
               read_standard_data(
                   StandardFile(derive_locals.star_match[1].path))
       IN  IF ~standard_data.ok THEN DeriveRaise(standard_data)
           ELSE /\ derive_pc' = "read_chunked_data"
                /\ derive_locals' =
                       [derive_locals EXCEPT
                           !.standard_data = Some(standard_data.val)]
    /\ UNCHANGED <<derive_files, derive_trace>>
    /\ DeriveUnchanged

\* line 421
DeriveReadChunkedData ==
    /\ derive_pc = "read_chunked_data"
    /\ LET chunked_data ==
               read_chunked_data([i \in 1..Len(derive_files) |->
                                     DeriveIfuOf(i)])
       IN  IF ~chunked_data.ok THEN DeriveRaise(chunked_data)
           ELSE /\ derive_pc' = "fit_model_flux"
                /\ derive_locals' =
                       [derive_locals EXCEPT
                           !.chunked_data = Some(chunked_data.val)]
    /\ UNCHANGED <<derive_files, derive_trace>>
    /\ DeriveUnchanged

\* The values of a fibre x chunk array all of whose entries are finite, as
\* they are for the files above (no fibre is NaN over a whole chunk).
FiniteTube(tube) ==
    [f \in 1..Len(tube) |-> [c \in 1..Len(tube[f]) |-> tube[f][c][1]]]

\* lines 423-429, and the entry of the loop of line 430
DeriveFitModelFlux ==
    /\ derive_pc = "fit_model_flux"
    /\ LET chunked_data == derive_locals.chunked_data[1]
           psf_parameters ==
               fit_model_flux(FiniteTube(chunked_data.data),
                              FiniteTube(chunked_data.variance),
                              chunked_data.xfibre, chunked_data.yfibre,
                              chunked_data.wavelength, model_name)
       IN  IF ~psf_parameters.ok THEN DeriveRaise(psf_parameters)
           ELSE /\ derive_pc' = "extract_total_flux"
                /\ derive_locals' =
                       [derive_locals EXCEPT
                           !.psf_parameters = Some(psf_parameters.val),
                           !.index = 1]
    /\ derive_trace' = Append(derive_trace, <<"fit_model_flux", 0>>)
    /\ UNCHANGED derive_files
    /\ DeriveUnchanged

\* lines 431-433
DeriveExtractTotalFlux ==
    /\ derive_pc = "extract_total_flux"
    /\ LET observed ==
               extract_total_flux(DeriveIfuOf(derive_locals.index),
                                  derive_locals.psf_parameters[1], model_name)
       IN  IF ~observed.ok THEN DeriveRaise(observed)
           ELSE /\ derive_pc' = "save_extracted_flux"
                /\ derive_locals' =
                       [derive_locals EXCEPT
                           !.observed = Some(observed.val),
                           !.psf_used =
                               @ \cup {derive_locals.psf_parameters[1]}]
    /\ derive_trace' =
           Append(derive_trace, <<"extract_total_flux", derive_locals.index>>)
    /\ UNCHANGED derive_files
    /\ DeriveUnchanged

\* lines 434-435
DeriveSaveExtractedFlux ==
    /\ derive_pc = "save_extracted_flux"
    /\ derive_files' =
           [derive_files EXCEPT ![derive_locals.index].hdulist =
               save_extracted_flux(@, derive_locals.observed[1].flux,
                                   derive_locals.observed[1].background,
                                   derive_locals.star_match[1].name).val]
    /\ derive_pc' = "take_ratio"
    /\ derive_trace' =
           Append(derive_trace, <<"save_extracted_flux", derive_locals.index>>)
    /\ UNCHANGED derive_locals
    /\ DeriveUnchanged

\* lines 436-441, and the step of the loop to the next path (or the return)
DeriveTakeRatio ==
    /\ derive_pc = "take_ratio"
    /\ LET i == derive_locals.index
           transfer_function ==
               take_ratio(derive_locals.standard_data[1].flux,
                          derive_locals.standard_data[1].wavelength,
                          derive_locals.observed[1].flux,
                          DeriveIfuOf(i).lambda_range, TRUE)
           saved == save_transfer_function(derive_files[i].hdulist,
                                           transfer_function.val)
       IN  IF ~transfer_function.ok
           THEN /\ DeriveRaise(transfer_function)
                /\ derive_trace' = Append(derive_trace, <<"take_ratio", i>>)
                /\ UNCHANGED derive_files
           ELSE IF ~saved.ok
           THEN /\ DeriveRaise(saved)
                /\ derive_trace' =
                       derive_trace \o <<<<"take_ratio", i>>,
                                         <<"save_transfer_function", i>>>>
                /\ UNCHANGED derive_files
           ELSE /\ derive_files' =
                       [derive_files EXCEPT ![i].hdulist = saved.val]
                /\ derive_trace' =
                       derive_trace \o <<<<"take_ratio", i>>,
                                         <<"save_transfer_function", i>>>>
                /\ derive_locals' = [derive_locals EXCEPT !.index = i + 1]
                /\ derive_pc' = IF i < Len(derive_files)
                                THEN "extract_total_flux" ELSE "returned"
    /\ DeriveUnchanged

DeriveNext ==
    \/ DeriveMatchStandardStar
    \/ DeriveReadStandardData
    \/ DeriveReadChunkedData
    \/ DeriveFitModelFlux
    \/ DeriveExtractTotalFlux
    \/ DeriveSaveExtractedFlux
    \/ DeriveTakeRatio

SpecDerive == DeriveInit /\ [][DeriveNext]_vars

\* The steps of a batch of n files that runs to its end.
ExpectedTrace(n) ==
    <<<<"fit_model_flux", 0>>>>
    \o [k \in 1..(4 * n) |->
           <<<<"extract_total_flux", "save_extracted_flux", "take_ratio",
               "save_transfer_function">>[((k - 1) % 4) + 1],
             ((k - 1) \div 4) + 1>>]

IsPrefix(a, b) == Len(a) <= Len(b) /\ a = SubSeq(b, 1, Len(a))

\* The order of the steps made so far is the order of the loop: one fit,
\* then file by file, and every extraction used the fitted record.
DeriveOrderKept ==
    /\ IsPrefix(derive_trace, ExpectedTrace(Len(derive_files)))
    /\ \A psf \in derive_locals.psf_used :
           derive_locals.psf_parameters = Some(psf)

\* C10: the PSF fit is run once per batch, before any extraction, and its
\* record is used for every file; the files are processed in path_list
\* order, each going through extract, save extracted flux, take ratio and
\* save transfer function, and no step of a file starts before the transfer
\* function of the file before it has been saved.
C10_FitOnceThenEachFile ==
    /\ DeriveOrderKept
    /\ ( /\ derive_pc \in {"returned", "raised"}
         /\ derive_locals.psf_parameters # None ) =>
           derive_trace = ExpectedTrace(Len(derive_files))

\* What the code does instead: once the PSF is fitted, the batch ends in
\* the exception of take_ratio for the first file, whose extracted flux is
\* saved and whose transfer function is not; no other file is touched.
DeriveStopsAtFirstRatio ==
    ( /\ derive_pc \in {"returned", "raised"}
      /\ derive_locals.psf_parameters # None ) =>
        /\ derive_pc = "raised"
        /\ derive_trace = SubSeq(ExpectedTrace(Len(derive_files)), 1, 4)
        /\ derive_locals.raised[1].err \in {"IndexError", "ValueError"}
        /\ Len(StoredData(derive_files[1].hdulist)[1]) = 2
        /\ \A i \in 2..Len(derive_files) :
               derive_files[i] \in DeriveFiles

-----------------------------------------------------------------------------
(* The no-standard-star error of line 418.                                 *)

\* The bundles of a table that are not sky bundles.
Bundles(fibre_table) ==
    {fibre_table[i].PROBENUM : i \in {j \in 1..Len(fibre_table) :
                                         ~IsSky(fibre_table[j].PROBENAME)}}

\* The stars of the index at a path, none when it cannot be loaded.
StarsOf(index_path) ==
    IF index_path \in DOMAIN index_files
          /\ LoadIndex(index_files[index_path]).ok
    THEN LoadIndex(index_files[index_path]).val
    ELSE <<>>

\* Every index of the catalogues can be loaded and every star of it has
\* coordinates.
CataloguesReadable ==
    \A c \in 1..Len(STANDARD_CATALOGUES) :
        /\ STANDARD_CATALOGUES[c] \in DOMAIN index_files
        /\ LoadIndex(index_files[STANDARD_CATALOGUES[c]]).ok
        /\ \A k \in 1..Len(StarsOf(STANDARD_CATALOGUES[c])) :
               StarCoordinates(StarsOf(STANDARD_CATALOGUES[c])[k]).ok

\* The separation the library returns for the mean position of a bundle
\* and the coordinates of a star is below max_sep_arcsec.
Near(fibre_table, probenum, star) ==
    AngularSeparation(MeanOver(fibre_table, probenum, "FIB_MRA"),
                      MeanOver(fibre_table, probenum, "FIB_MDEC"),
                      StarCoordinates(star).val.ra_star,
                      StarCoordinates(star).val.dec_star)
        < 1000 * MAX_SEP_ARCSEC

\* No bundle of the table that is not a sky bundle is near a star of the
\* catalogues.
NoBundleNearStar(fibre_table) ==
    \A probenum \in Bundles(fibre_table) :
        \A c \in 1..Len(STANDARD_CATALOGUES) :
            \A k \in 1..Len(StarsOf(STANDARD_CATALOGUES[c])) :
                StarCoordinates(StarsOf(STANDARD_CATALOGUES[c])[k]).ok =>
                    ~Near(fibre_table, probenum,
                          StarsOf(STANDARD_CATALOGUES[c])[k])

NoStandardStarFound == Some(RaiseAt("ValueError", 418))

\* No step after the match has been made and no file has been written to.
NothingDone ==
    /\ derive_trace = <<>>
    /\ \A i \in 1..Len(derive_files) : derive_files[i] \in DeriveFiles

-----------------------------------------------------------------------------
(* Calls of chunk_data: spectra of 60 to 250 pixels, n_drop and n_chunk    *)
(* given or left to their defaults.  The spectrum is longer than 2*n_drop; *)
(* a given n_chunk is at least 1, and 60 chunks are more than the pixels   *)
(* left of the shortest spectra (chunks of no pixel).                      *)

ChunkCalls ==
    {a \in [n_pixel : {60, 98, 100, 151, 199, 248, 250},
            n_drop : {None, Some(0), Some(10), Some(24), Some(30)},
            n_chunk : {None, Some(1), Some(2), Some(3), Some(60)}] :
        a.n_pixel > 2 * (IF a.n_drop = None THEN 24 ELSE a.n_drop[1])}

ChunkInit ==
    /\ model_name = "ref_centre_alpha_angle_circ"
    /\ parameters_dict = GuessRecord("ref_centre_alpha_angle_circ")
    /\ vector_result = NotCalled
    /\ dict_result = NotCalled
    /\ CallsIdle
    /\ ExtractIdle
    /\ RebinIdle
    /\ SaveIdle
    /\ DeriveIdle
    /\ chunk_args \in ChunkCalls
    /\ chunk_result = NotCalled
    /\ standard_lines = <<>>
    /\ standard_result = NotCalled
    /\ smooth_args = <<>>
    /\ smooth_result = NotCalled
    /\ subgrid_args = <<>>
    /\ subgrid_result = NotCalled

\* data, variance, wavelength = chunk_data(ifu, n_drop=n_drop, n_chunk=n_chunk)
CallChunkData ==
    /\ ~Called(chunk_result)
    /\ chunk_result' = chunk_data(DeriveIfu(chunk_args.n_pixel, 2),
                                  chunk_args.n_drop, chunk_args.n_chunk)
    /\ UNCHANGED <<codecVars, callVars, extractVars, rebinVars, saveVars,
                   deriveVars, chunk_args, standard_lines, standard_result,
                   smooth_args, smooth_result, subgrid_args, subgrid_result>>

SpecChunk == ChunkInit /\ [][CallChunkData]_vars

\* The n_drop of the call: 24 when it is not given.
DroppedPixels == IF chunk_args.n_drop = None THEN 24 ELSE chunk_args.n_drop[1]

\* C12: chunk_data drops n_drop pixels (24 by default) from each end: the
\* pixel range averaged into chunks starts at n_drop and ends no later than
\* n_pixel - n_drop, for n_drop and n_chunk given or defaulted, and never
\* runs past the end of the spectrum (a call that finds no chunk to make,
\* n_chunk = 0, averages no range).
C12_DropsBothEnds ==
    Called(chunk_result) =>
        IF chunk_result.ok
        THEN /\ chunk_result.val.start = DroppedPixels
             /\ chunk_result.val.end <= chunk_args.n_pixel - DroppedPixels
        ELSE chunk_result.err = "ZeroDivisionError"

-----------------------------------------------------------------------------
(* Calls of smooth_ratio: ratios of 1..MaxRatio samples, each 0.0, 1.0,    *)
(* 2.0, inf or nan, smoothed with width 1 (extra = 3).                     *)

MaxRatio == 5

SmoothCalls ==
    UNION {[ratio : [1..n -> {NaN, Inf(1), Fin(0), Fin(1000), Fin(2000)}],
            width : {1}] : n \in 1..MaxRatio}

SmoothInit ==
    /\ model_name = "ref_centre_alpha_angle_circ"
    /\ parameters_dict = GuessRecord("ref_centre_alpha_angle_circ")
    /\ vector_result = NotCalled
    /\ dict_result = NotCalled
    /\ CallsIdle
    /\ ExtractIdle
    /\ RebinIdle
    /\ SaveIdle
    /\ DeriveIdle
    /\ chunk_args = <<>>
    /\ chunk_result = NotCalled
    /\ standard_lines = <<>>
    /\ standard_result = NotCalled
    /\ smooth_args \in SmoothCalls
    /\ smooth_result = NotCalled
    /\ subgrid_args = <<>>
    /\ subgrid_result = NotCalled

\* ratio = smooth_ratio(ratio), line 612
CallSmoothRatio ==
    /\ ~Called(smooth_result)
    /\ smooth_result' = smooth_ratio(smooth_args.ratio, smooth_args.width)
    /\ UNCHANGED <<codecVars, callVars, extractVars, rebinVars, saveVars,
                   deriveVars, chunk_args, chunk_result, standard_lines,
                   standard_result, smooth_args, subgrid_args, subgrid_result>>

SpecSmooth == SmoothInit /\ [][CallSmoothRatio]_vars

\* What lines 621-635 made of the ratio of the call.
Padded == inverse_extended(smooth_args.ratio, smooth_args.width)

\* The trimmed reciprocal has a sample d positions away from its first and
\* from its last sample for every d in 1..extra.
ReflectionDefined ==
    /\ \E i \in 1..Len(smooth_args.ratio) :
           IsFinite(FloatDivide(Fin(1000), smooth_args.ratio[i]))
    /\ LET finite == {i \in 1..Len(smooth_args.ratio) :
                         IsFinite(FloatDivide(Fin(1000),
                                              smooth_args.ratio[i]))}
       IN  \E i, j \in finite : j - i >= 3 * smooth_args.width

\* C14: in smooth_ratio the trimmed reciprocal array is padded at both ends
\* by extra = round(3*width) samples by point reflection about the first and
\* the last valid sample: for every d in 1..extra, the padded sample d
\* positions before the first valid sample equals 2*first - (sample d
\* positions after the first), and the padded sample d positions after the
\* last valid sample equals 2*last - (sample d positions before the last),
\* whenever the array is long enough to hold those samples and is padded.
C14_PointReflection ==
    (Called(smooth_result) /\ ReflectionDefined /\ Padded.ok) =>
        LET extra == Padded.val.extra
            cut == Padded.val.inverse_cut
            extended == Padded.val.inverse_extended
            n == Len(cut)
        IN  /\ extra = 3 * smooth_args.width
            /\ Len(extended) = n + 2 * extra
            /\ \A d \in 1..extra :
                   /\ extended[extra + 1 - d] = 2 * cut[1] - cut[1 + d]
                   /\ extended[extra + n + d] = 2 * cut[n] - cut[n - d]

\* What the code does instead: the sample d positions before the first is
\* reflected from the sample d + 1 positions after it, and the sample d
\* positions after the last from the sample d - 1 positions before it.
SmoothPadsOffByOne ==
    (Called(smooth_result) /\ Padded.ok /\ Len(Padded.val.inverse_cut) >= 5) =>
        LET extra == Padded.val.extra
            cut == Padded.val.inverse_cut
            extended == Padded.val.inverse_extended
            n == Len(cut)
        IN  \A d \in 1..extra :
                /\ extended[extra + 1 - d] = 2 * cut[1] - cut[2 + d]
                /\ extended[extra + n + d] = 2 * cut[n] - cut[n + 1 - d]

-----------------------------------------------------------------------------
(* Calls of generate_subgrid: the module's own call, line 66               *)
(* (FIBRE_RADIUS = 0.798 and the defaults n_inner = 6, n_rings = 10), and  *)
(* calls with 0..MaxRings rings of 1..8 inner points.                      *)

MaxRings == 4

SubgridCalls ==
    [fibre_radius : {525, 798, 1000}, n_inner : 1..8, n_rings : 0..MaxRings]
    \cup {[fibre_radius |-> 798, n_inner |-> 6, n_rings |-> 10]}

SubgridInit ==
    /\ model_name = "ref_centre_alpha_angle_circ"
    /\ parameters_dict = GuessRecord("ref_centre_alpha_angle_circ")
    /\ vector_result = NotCalled
    /\ dict_result = NotCalled
    /\ CallsIdle
    /\ ExtractIdle
    /\ RebinIdle
    /\ SaveIdle
    /\ DeriveIdle
    /\ chunk_args = <<>>
    /\ chunk_result = NotCalled
    /\ standard_lines = <<>>
    /\ standard_result = NotCalled
    /\ smooth_args = <<>>
    /\ smooth_result = NotCalled
    /\ subgrid_args \in SubgridCalls
    /\ subgrid_result = NotCalled

\* XSUB, YSUB = generate_subgrid(FIBRE_RADIUS), line 66
CallGenerateSubgrid ==
    /\ ~Called(subgrid_result)
    /\ subgrid_result' = generate_subgrid(subgrid_args.fibre_radius,
                                          subgrid_args.n_inner,
                                          subgrid_args.n_rings)
    /\ UNCHANGED <<codecVars, callVars, extractVars, rebinVars, saveVars,
                   deriveVars, chunk_args, chunk_result, standard_lines,
                   standard_result, smooth_args, smooth_result, subgrid_args>>

SpecSubgrid == SubgridInit /\ [][CallGenerateSubgrid]_vars

\* C15: in generate_subgrid each ring after the first is rotated relative
\* to the previous ring by half an angular point-spacing: the starting
\* angle of ring i+1 minus the starting angle of ring i equals half of
\* 2*pi/n_points of ring i, for every ring; with the defaults the rings hold
\* round(6*(i+0.5)) points for i = 0..9 and every point lies strictly inside
\* the disc of the given fibre radius.
C15_HalfSpacingRotation ==
    (Called(subgrid_result) /\ subgrid_result.ok) =>
        LET rings == subgrid_result.val
        IN  /\ Len(rings) = subgrid_args.n_rings
            /\ rings[1].rot_angle = Angle(0, 0, 1)
            /\ \A i \in 1..(Len(rings) - 1) :
                   rings[i + 1].rot_angle =
                       AngleAdd(rings[i].rot_angle,
                                Angle(0, 1, rings[i].n_points))
            /\ \A i \in 1..Len(rings) :
                   /\ rings[i].radius > 0
                   /\ rings[i].radius < 1000 * subgrid_args.fibre_radius
            /\ (subgrid_args.n_inner = 6 /\ subgrid_args.n_rings = 10) =>
                   \A i \in 1..10 : rings[i].n_points = 6 * (i - 1) + 3

\* What the code does instead: line 60 adds half of theta_ring[1], which
\* holds the rotation so far, so each ring is turned by half a spacing plus
\* half the rotation of the ring before it; the counts and the radii are as
\* the claim says.
SubgridRotationCompounds ==
    (Called(subgrid_result) /\ subgrid_result.ok) =>
        LET rings == subgrid_result.val
        IN  /\ Len(rings) = subgrid_args.n_rings
            /\ rings[1].rot_angle = Angle(0, 0, 1)
            /\ \A i \in 1..(Len(rings) - 1) :
                   rings[i + 1].rot_angle =
                       AngleAdd(AngleAdd(rings[i].rot_angle,
                                         AngleHalf(rings[i].rot_angle)),
                                Angle(0, 1, rings[i].n_points))
            /\ \A i \in 1..Len(rings) :
                   /\ rings[i].radius > 0
                   /\ rings[i].radius < 1000 * subgrid_args.fibre_radius
            /\ (subgrid_args.n_inner = 6 /\ subgrid_args.n_rings = 10) =>
                   \A i \in 1..10 : rings[i].n_points = 6 * (i - 1) + 3

-----------------------------------------------------------------------------
(* Calls of read_standard_data: spectrum files of 0..MaxLines lines, each  *)
(* a line of words, a comment, a blank line or a row of the table.         *)

MaxLines == 4

StandardFiles ==
    UNION {[1..n -> {TextLine, CommentLine, BlankLine,
                     NumberLine(3000, 8)}] : n \in 0..MaxLines}

StandardInit ==
    /\ model_name = "ref_centre_alpha_angle_circ"
    /\ parameters_dict = GuessRecord("ref_centre_alpha_angle_circ")
    /\ vector_result = NotCalled
    /\ dict_result = NotCalled
    /\ CallsIdle
    /\ ExtractIdle
    /\ RebinIdle
    /\ SaveIdle
    /\ DeriveIdle
    /\ chunk_args = <<>>
    /\ chunk_result = NotCalled
    /\ standard_lines \in StandardFiles
    /\ standard_result = NotCalled
    /\ smooth_args = <<>>
    /\ smooth_result = NotCalled
    /\ subgrid_args = <<>>
    /\ subgrid_result = NotCalled

\* standard_data = read_standard_data(star_match), line 419
CallReadStandardData ==
    /\ ~Called(standard_result)
    /\ standard_result' = read_standard_data(standard_lines)
    /\ UNCHANGED <<codecVars, callVars, extractVars, rebinVars, saveVars,
                   deriveVars, chunk_args, chunk_result, standard_lines,
                   smooth_args, smooth_result, subgrid_args, subgrid_result>>

SpecStandard == StandardInit /\ [][CallReadStandardData]_vars

\* The number of lines that precede the first line whose first token is a
\* number: all of them when there is no such line.
HeaderLength(lines) ==
    IF \E i \in 1..Len(lines) : lines[i].kind = "number"
    THEN (CHOOSE i \in 1..Len(lines) :
             /\ lines[i].kind = "number"
             /\ \A j \in 1..(i - 1) : lines[j].kind # "number") - 1
    ELSE Len(lines)

\* C16: the header scan of read_standard_data terminates for every file and
\* sets skiprows to the number of lines that precede the first line whose
\* first token parses as a number, for any number of header lines, whatever
\* they contain (blank lines included), and also when the file has no
\* numeric line.
C16_HeaderScan ==
    Called(standard_result) =>
        CountHeader(standard_lines, 0) = Ok(HeaderLength(standard_lines))

\* What the code does: the scan always ends, with that skiprows when the
\* lines before the first numeric line all hold a word or a comment, and in
\* IndexError (line 590) at the first blank line before it or at the end of
\* a file with no numeric line; the exception leaves read_standard_data.
HeaderScanRaisesOnBlank ==
    Called(standard_result) =>
        LET header == SubSeq(standard_lines, 1, HeaderLength(standard_lines))
            words == \A i \in 1..Len(header) :
                         header[i].kind \in {"text", "comment"}
        IN  IF words /\ Len(header) < Len(standard_lines)
            THEN CountHeader(standard_lines, 0) = Ok(Len(header))
            ELSE /\ CountHeader(standard_lines, 0) = RaiseAt("IndexError", 590)
                 /\ standard_result = RaiseAt("IndexError", 590)

-----------------------------------------------------------------------------
(* The indices of the loop of rebin_flux, lines 682-712.                   *)

\* C17: rebin_flux never indexes outside its arrays.  For a strictly
\* increasing target grid of m wavelengths and source grid of N wavelengths
\* with a 1-D source flux of length N, origbinindex[i+1] is read only for
\* i+1 <= m (line 691 never reads past the m+1 bin edges) and every source
\* bin index used (lowlimit, intermediate, upplimit) lies in 0..N-3 (line
\* 710 never indexes past the N-2 source bins), also when the last target
\* edge lies inside the source range and when a target edge coincides with
\* the last source bin limit.
C17_IndicesInRange ==
    Called(rebin_result) =>
        /\ rebin_result # RaiseAt("IndexError", 691)
        /\ rebin_result # RaiseAt("IndexError", 710)

====
